---- MODULE Spec2Model ----
(***************************************************************************)
(* Goobert video wall (src/goobert.py): the fullscreen state machine of    *)
(* MPVGridApp, the grid registry it works over, the players behind the     *)
(* per-cell IPC channel, and MPVController.send_command.                   *)
(*                                                                         *)
(* One action per UI handler.  A handler is modelled whole: nested calls,  *)
(* the except clauses and the emergency reset they route to are part of    *)
(* the same step.  Handlers are callable in every state (the spec speaks   *)
(* of them as operations of the coordinator); the only guard taken from    *)
(* the widgets is the enabled/disabled state the code itself sets on the   *)
(* Start and Stop buttons.                                                 *)
(*                                                                         *)
(* Environment inputs of a handler:                                        *)
(*   fail   - the cells whose IPC calls fail during this handler           *)
(*            (timeout, refused); a dead player always fails;              *)
(*   nosave - the cells whose frame.grid_info() raises inside              *)
(*            _save_frame_grid_info (which then returns None);             *)
(*   fault  - the one toolkit call outside every suppress() block that     *)
(*            raises during this handler ("none": no call raises).         *)
(* Toolkit calls inside suppress() succeed unless Tk defines them to fail  *)
(* (Panedwindow.forget of a pane that is not managed, Panedwindow.sashpos  *)
(* with a single pane); the calls made by _emergency_reset itself succeed. *)
(***************************************************************************)
EXTENDS Integers, Sequences, FiniteSets, TLC

\* ------------------------------------------------------------------ bounds
\* walls of the specification with a misbehaving environment (Spec)
MaxRows == 1
MaxCols == 2
\* walls of the specification with a well-behaved environment (SpecQuiet)
WallRows == 2
WallCols == 2
\* environment events in one run: a key pressed inside a player, a player
\* exiting, a sash drag, and a handler in which an IPC call fails, a
\* grid_info() fails or a toolkit call raises
MaxEnv == 2
\* positions the user can drag the sash to
MaxSash == 1
\* cells whose IPC calls fail, or whose grid_info() fails, in one handler
MaxFail == 1

None == "None"
\* active_tile = None
NoCell == <<-1, -1>>
\* saved_sash_pos = None
NoSash == -1

GridCells(rows, cols) == (0 .. rows - 1) \X (0 .. cols - 1)

\* dict iteration order of cell_frames / controllers: row-major insertion
CellIndex(rc) == rc[1] * (MaxCols + WallCols) + rc[2]
Before(a, b) == CellIndex(a) < CellIndex(b)

SmallSets(S) == {T \in SUBSET S : Cardinality(T) <= MaxFail}

\* ------------------------------------------------- MPVController (IPC)
\* How the connection of one send_command call goes.
ConnOutcomes == {"connected", "refused", "missing", "timeout", "send_failed",
                 "recv_timeout"}

\* What the peer writes back, as the text recv() returns.
ReplyTrue == "{\"data\":true,\"error\":\"success\"}"
ReplyFalse == "{\"data\":false,\"error\":\"success\"}"
ReplySuccess == "{\"error\":\"success\"}"
ReplyPropError == "{\"error\":\"property unavailable\"}"
ReplyEvent == "{\"event\":\"pause\"}"
ReplyEmpty == ""
ReplyGarbage == "mpv: not json"
ReplyTruncated == "{\"data\":tr"
ReplyTwoLines == "{\"event\":\"pause\"}\n{\"error\":\"success\"}"
ReplyArray == "[]"
\* bytes that are no UTF-8: response.decode raises
ReplyNotUtf8 == "<0xff 0xfe>"

WellFormedObjects == {ReplyTrue, ReplyFalse, ReplySuccess, ReplyPropError, ReplyEvent}
MalformedReplies == {ReplyEmpty, ReplyGarbage, ReplyTruncated, ReplyTwoLines,
                     ReplyNotUtf8}
Replies == WellFormedObjects \cup MalformedReplies \cup {ReplyArray}

\* response.decode("utf-8") and json.loads: a Python value, or the
\* UnicodeDecodeError / JSONDecodeError raised.
\* A dict is a function from its keys to JSON scalars written as strings.
json_loads(text) ==
    CASE text = ReplyTrue -> [py |-> "dict", d |-> [data |-> "true", error |-> "success"]]
      [] text = ReplyFalse -> [py |-> "dict", d |-> [data |-> "false", error |-> "success"]]
      [] text = ReplySuccess -> [py |-> "dict", d |-> [error |-> "success"]]
      [] text = ReplyPropError -> [py |-> "dict", d |-> [error |-> "property unavailable"]]
      [] text = ReplyEvent -> [py |-> "dict", d |-> [event |-> "pause"]]
      [] text = ReplyArray -> [py |-> "list", d |-> <<>>]
      [] text = ReplyTwoLines -> [py |-> "raise", d |-> [error |-> "Extra data"]]
      [] text = ReplyNotUtf8 ->
            [py |-> "raise", d |-> [error |-> "'utf-8' codec can't decode byte 0xff"]]
      [] OTHER -> [py |-> "raise", d |-> [error |-> "Expecting value"]]

ConnError(conn) ==
    CASE conn = "refused" -> "[Errno 111] Connection refused"
      [] conn = "missing" -> "[Errno 2] No such file or directory"
      [] conn = "send_failed" -> "[Errno 32] Broken pipe"
      [] OTHER -> "timed out"

\* send_command without its except clause
send_command_swallowing_nothing(conn, reply) ==
    IF conn # "connected"
    THEN [py |-> "raise", d |-> [error |-> ConnError(conn)]]
    ELSE json_loads(reply)

\* The value send_command returns; py = "raise" would be an exception
\* leaving send_command.
send_command(conn, reply) ==
    IF conn # "connected"
    THEN [py |-> "dict", d |-> [error |-> ConnError(conn)]]
    ELSE LET v == json_loads(reply)
         IN  IF v.py = "raise" THEN [py |-> "dict", d |-> v.d] ELSE v

\* dict.get(key): None when the key is absent.
DictGet(d, key) == IF key \in DOMAIN d THEN d[key] ELSE None

\* get_property: .get("data") of the result; on a result that is no dict
\* the attribute lookup raises.
get_property(conn, reply) ==
    LET r == send_command(conn, reply)
    IN  IF r.py = "dict"
        THEN [raised |-> FALSE, value |-> DictGet(r.d, "data")]
        ELSE [raised |-> TRUE, value |-> None]

\* bool(p) if p is not None else False
SavedFlag(p) == IF p = None THEN FALSE ELSE p = "true"

\* The reply of a live player to get_property of a flag.
FlagReply(b) == IF b THEN ReplyTrue ELSE ReplyFalse
\* ------------------------------------------------------------ the state
VARIABLES
    \* FullscreenState
    mode, active_tile, saved_sash_pos, side_visible, saved_grid_info,
    saved_pause_states, saved_mute_states, tile_forced_global,
    \* MPVGridApp
    cell_frames, controllers, monitor_items, current_rows, current_cols,
    start_enabled, stop_enabled, monitor_on,
    \* toolkit: root "-fullscreen" attribute, pane managed by pw, sash
    window_fullscreen, side_shown, sash_pos,
    \* the player behind each controller: [pause, mute, alive]
    players, env_used,
    \* history of the last handler: whether an exception left it, whether
    \* _emergency_reset ran in it; the players' flags at Tile entry
    raised, recovered, tile_pre,
    \* one send_command call (specification SpecIPC)
    ipc_conn, ipc_reply, ipc_result, ipc_value,
    \* the broadcast bus (specification SpecBus): the socket paths under
    \* /tmp with what answers behind each, the last broadcast call and what
    \* it did
    bus_sockets, bus_walls, bus_call, bus_out,
    \* the processes and playlists of the wall, and the last _stop_all
    processes, playlists, stop_log,
    \* the files of the source directory, the players' own playlists and
    \* playback, and the last _rename_selected_current
    disk, media, rename_log,
    \* per player: loop-file and the variables of toggle-loop.lua; the last
    \* toggle
    lua, loop_log,
    \* the playlist files under self.tmpdir, the last _start_grid, and the
    \* callbacks the monitor thread has handed to the event loop
    tmpdir, start_log, after_queue,
    \* the last script message grid-sync.lua handled
    sync_log,
    \* one call of _replace_current_entry, command by command, with the
    \* player it talks to
    swap_call

fsvars == <<mode, active_tile, saved_sash_pos, side_visible, saved_grid_info,
            saved_pause_states, saved_mute_states, tile_forced_global>>
appvars == <<cell_frames, controllers, monitor_items, current_rows, current_cols,
             start_enabled, stop_enabled, monitor_on>>
tkvars == <<window_fullscreen, side_shown, sash_pos>>
histvars == <<raised, recovered, tile_pre>>
ipcvars == <<ipc_conn, ipc_reply, ipc_result, ipc_value>>
busvars == <<bus_sockets, bus_walls, bus_call, bus_out>>
lifevars == <<processes, playlists, stop_log>>
\* what the handlers of the window never touch, or what is followed only
\* under the specification that is about it
renamevars == <<disk, media, rename_log>>
loopvars == <<lua, loop_log>>
spawnvars == <<tmpdir, start_log, after_queue>>
syncvars == <<sync_log>>
swapvars == <<swap_call>>
sidevars == <<busvars, lifevars, renamevars, loopvars, spawnvars, syncvars, swapvars>>
\* everything but the bus
notbus == <<fsvars, appvars, tkvars, players, env_used, histvars, ipcvars, lifevars,
           renamevars, loopvars, spawnvars, syncvars, swapvars>>
\* everything the window's handlers work on
guivars == <<fsvars, appvars, tkvars, players, env_used, histvars>>
vars == <<guivars, ipcvars, sidevars>>

EmptyMap == <<>>

\* saved_grid_info value of a cell whose _save_frame_grid_info returned None
NoneInfo == [row |-> -1, column |-> -1, rowspan |-> -1, columnspan |-> -1, pad |-> -1]

\* sash position right after pw.add(self.side, weight=2)
SashAfterAdd == 0
SashPositions == 0 .. MaxSash

\* cell.grid(row=r, column=c, sticky="nsew", padx=1, pady=1)
DefaultLayout(rc) ==
    [row |-> rc[1], column |-> rc[2], rowspan |-> 1, columnspan |-> 1,
     pad |-> 1, shown |-> TRUE]

FreshPlayer == [pause |-> FALSE, mute |-> FALSE, alive |-> TRUE]
DeadPlayer == [pause |-> FALSE, mute |-> FALSE, alive |-> FALSE]

\* The handlers work on one record of everything they can change; exc is
\* the exception travelling up the call stack.
Cur ==
    [mode |-> mode, active_tile |-> active_tile, saved_sash_pos |-> saved_sash_pos,
     side_visible |-> side_visible, saved_grid_info |-> saved_grid_info,
     saved_pause_states |-> saved_pause_states,
     saved_mute_states |-> saved_mute_states,
     tile_forced_global |-> tile_forced_global,
     cell_frames |-> cell_frames, controllers |-> controllers,
     current_rows |-> current_rows, current_cols |-> current_cols,
     window_fullscreen |-> window_fullscreen, side_shown |-> side_shown,
     sash_pos |-> sash_pos, players |-> players,
     exc |-> FALSE, reset_ran |-> FALSE]

\* recovered: "no", "except" (an except clause called _emergency_reset) or
\* "button" (the Reset button called it)
Recovered(s) == IF s.reset_ran THEN "except" ELSE "no"

Commit(s) ==
    /\ mode' = s.mode
    /\ active_tile' = s.active_tile
    /\ saved_sash_pos' = s.saved_sash_pos
    /\ side_visible' = s.side_visible
    /\ saved_grid_info' = s.saved_grid_info
    /\ saved_pause_states' = s.saved_pause_states
    /\ saved_mute_states' = s.saved_mute_states
    /\ tile_forced_global' = s.tile_forced_global
    /\ cell_frames' = s.cell_frames
    /\ controllers' = s.controllers
    /\ current_rows' = s.current_rows
    /\ current_cols' = s.current_cols
    /\ window_fullscreen' = s.window_fullscreen
    /\ side_shown' = s.side_shown
    /\ sash_pos' = s.sash_pos
    /\ players' = s.players
    /\ raised' = s.exc

\* ------------------------------------------------------- IPC to a player
\* A call reaches the player when its process is alive and the call is not
\* one of this handler's failing ones.
Conn(s, rc, fail) ==
    IF s.players[rc].alive /\ rc \notin fail THEN "connected" ELSE "timeout"

\* ctrl.get_property("pause") / ("mute")
GetFlag(s, rc, prop, fail) ==
    get_property(Conn(s, rc, fail), FlagReply(s.players[rc][prop])).value

\* the player after ctrl.set_property(prop, value)
SetFlag(pl, conn, prop, value) ==
    IF conn = "connected" THEN [pl EXCEPT ![prop] = value] ELSE pl

\* the player after ctrl.cycle(prop)
CycleFlag(pl, conn, prop) ==
    IF conn = "connected" THEN [pl EXCEPT ![prop] = ~pl[prop]] ELSE pl

\* ------------------------------------------------------------ FullscreenState
\* FullscreenState.reset
reset(s) ==
    [s EXCEPT !.mode = "NORMAL", !.active_tile = NoCell, !.side_visible = TRUE,
              !.saved_grid_info = EmptyMap, !.saved_pause_states = EmptyMap,
              !.saved_mute_states = EmptyMap, !.tile_forced_global = FALSE]

is_fullscreen(s) == s.mode \in {"GLOBAL", "TILE"}

\* ------------------------------------------------------------ frames
\* _save_frame_grid_info: grid_info() of a removed frame is empty, so the
\* defaults of the .get calls are stored; None when grid_info() raises.
_save_frame_grid_info(frame, fails) ==
    IF fails THEN NoneInfo
    ELSE IF frame.shown
         THEN [row |-> frame.row, column |-> frame.column, rowspan |-> frame.rowspan,
               columnspan |-> frame.columnspan, pad |-> frame.pad]
         ELSE [row |-> 0, column |-> 0, rowspan |-> 1, columnspan |-> 1, pad |-> 1]

\* _restore_frame_grid_info: frame.grid(**info)
_restore_frame_grid_info(frame, info) ==
    [row |-> info.row, column |-> info.column, rowspan |-> info.rowspan,
     columnspan |-> info.columnspan, pad |-> info.pad, shown |-> TRUE]

\* frame.grid() without options: a removed frame comes back with the
\* options it had, a managed frame is left as it is.
GridNoArgs(frame) == [frame EXCEPT !.shown = TRUE]

\* saved_grid_info.get(rc), as the truth value the walrus tests
HasSavedInfo(s, rc) ==
    rc \in DOMAIN s.saved_grid_info /\ s.saved_grid_info[rc] # NoneInfo

\* the loop body shared by Tile exit and the emergency reset
RestoredFrame(s, rc) ==
    IF HasSavedInfo(s, rc)
    THEN _restore_frame_grid_info(s.cell_frames[rc], s.saved_grid_info[rc])
    ELSE GridNoArgs(s.cell_frames[rc])
\* ------------------------------------------------------------ transitions
\* Each handler is the composition of its statements, in program order.
FaultPoints == {"none", "enter_fs_ui", "exit_fs_ui", "tile_hide", "tile_ui",
                "untile_grid", "untile_ui"}

Raise(s) == [s EXCEPT !.exc = TRUE]

\* the toolkit call at a fault point raises when it is this handler's fault
RaiseIf(faulty, s) == IF faulty THEN Raise(s) ELSE s

\* root.attributes("-fullscreen", on)
SetWindow(s, on) == [s EXCEPT !.window_fullscreen = on]

\* pw.add(self.side, weight=2): raises when the pane is already managed
PaneAdd(s) ==
    IF s.side_shown THEN s
    ELSE [s EXCEPT !.side_shown = TRUE, !.sash_pos = SashAfterAdd]

\* "if not self.fs_state.side_visible: self.pw.add(...)"
ReaddIfHidden(s) == IF ~s.side_visible THEN PaneAdd(s) ELSE s

\* the frame loop of Tile exit and of the emergency reset, run to its end
RestoreAllFrames(s) ==
    [s EXCEPT !.cell_frames = [rc \in DOMAIN s.cell_frames |-> RestoredFrame(s, rc)]]

\* the reset writing the snapshots back as a Tile exit does
UnmuteUnpauseAll_from_snapshot(s, fail) ==
    [s EXCEPT !.players =
        [rc \in s.controllers |->
            IF rc = s.active_tile THEN s.players[rc]
            ELSE IF rc \in DOMAIN s.saved_pause_states /\ rc \in DOMAIN s.saved_mute_states
            THEN SetFlag(SetFlag(s.players[rc], Conn(s, rc, fail), "mute",
                                 s.saved_mute_states[rc]),
                         Conn(s, rc, fail), "pause", s.saved_pause_states[rc])
            ELSE s.players[rc]]]

\* the emergency reset's "mute no, pause no" on every controller
UnmuteUnpauseAll(s, fail) ==
    [s EXCEPT !.players =
        [rc \in s.controllers |->
            SetFlag(SetFlag(s.players[rc], Conn(s, rc, fail), "mute", FALSE),
                    Conn(s, rc, fail), "pause", FALSE)]]

\* _emergency_reset
_emergency_reset(s, fail) ==
    [reset(UnmuteUnpauseAll(RestoreAllFrames(ReaddIfHidden(SetWindow(s, FALSE))), fail))
        EXCEPT !.exc = FALSE, !.reset_ran = TRUE]

\* the except clause of the _safe_* wrappers and of _exit_tile_fullscreen
Recover(r, fail) == IF r.exc THEN _emergency_reset(r, fail) ELSE r

\* pw.sashpos(0) raises (suppressed) when the side pane is not managed
SaveSash(s) ==
    IF s.mode = "NORMAL" /\ s.side_shown THEN [s EXCEPT !.saved_sash_pos = s.sash_pos]
    ELSE s

\* pw.forget raises (suppressed) before side_visible is assigned
HideSide(s) ==
    IF s.side_visible /\ s.side_shown
    THEN [s EXCEPT !.side_shown = FALSE, !.side_visible = FALSE]
    ELSE s

GoGlobal(s) == [s EXCEPT !.window_fullscreen = TRUE, !.mode = "GLOBAL"]

\* _enter_fullscreen
_enter_fullscreen(s, fault) ==
    IF s.mode = "GLOBAL" THEN s
    ELSE RaiseIf(fault = "enter_fs_ui", GoGlobal(HideSide(SaveSash(s))))

\* the least cell of U in iteration order
FirstOf(U) ==
    IF U = {} THEN NoCell ELSE CHOOSE rc \in U : \A o \in U : o = rc \/ Before(rc, o)

\* the first cell, in iteration order, whose frame.grid() call is reached
FirstUnsaved(s) == FirstOf({rc \in DOMAIN s.cell_frames : ~HasSavedInfo(s, rc)})

\* the frame loop of Tile exit cut short by frame.grid() raising at cell stop
RestoreFramesBefore(s, stop) ==
    [s EXCEPT !.cell_frames =
        [rc \in DOMAIN s.cell_frames |->
            IF Before(rc, stop) THEN RestoredFrame(s, rc) ELSE s.cell_frames[rc]]]

\* the player after set_property("pause", saved) when a value was saved
PauseRestored(s, rc, fail) ==
    IF rc \in DOMAIN s.saved_pause_states
    THEN SetFlag(s.players[rc], Conn(s, rc, fail), "pause", s.saved_pause_states[rc])
    ELSE s.players[rc]

\* player pl after set_property("mute", saved) when a value was saved
MuteRestored(s, rc, fail, pl) ==
    IF rc \in DOMAIN s.saved_mute_states
    THEN SetFlag(pl, Conn(s, rc, fail), "mute", s.saved_mute_states[rc])
    ELSE pl

\* the restore without its mute half
RestoredPlayer_pause_only(s, rc, fail) == PauseRestored(s, rc, fail)

\* the restore without its pause half
RestoredPlayer_mute_only(s, rc, fail) == MuteRestored(s, rc, fail, s.players[rc])

\* the player of a non-active cell after the restore of Tile exit
RestoredPlayer(s, rc, fail) == MuteRestored(s, rc, fail, PauseRestored(s, rc, fail))

\* "Restore MPV states": every controller but the active tile's
RestorePlayers(s, fail) ==
    [s EXCEPT !.players =
        [rc \in s.controllers |->
            IF rc = s.active_tile THEN s.players[rc] ELSE RestoredPlayer(s, rc, fail)]]

\* the clearing with saved_grid_info forgotten
ClearTileState_keeps_layout(s) ==
    [s EXCEPT !.active_tile = NoCell, !.saved_pause_states = EmptyMap,
              !.saved_mute_states = EmptyMap]

\* "Clear tile state"
ClearTileState(s) ==
    [s EXCEPT !.active_tile = NoCell, !.saved_grid_info = EmptyMap,
              !.saved_pause_states = EmptyMap, !.saved_mute_states = EmptyMap]

\* the exit with "Clear tile state" done before the two restores
_exit_tile_fullscreen_internal_clearing_first(s, fail, fault) ==
    IF s.mode # "TILE" THEN s
    ELSE RaiseIf(fault \in {"untile_grid", "untile_ui"},
                 RestorePlayers(RestoreAllFrames(ClearTileState(s)), fail))

\* _exit_tile_fullscreen_internal
_exit_tile_fullscreen_internal(s, fail, fault) ==
    IF s.mode # "TILE" THEN s
    ELSE IF fault = "untile_grid" /\ FirstUnsaved(s) # NoCell
    THEN Raise(RestoreFramesBefore(s, FirstUnsaved(s)))
    ELSE RaiseIf(fault = "untile_ui",
                 ClearTileState(RestorePlayers(RestoreAllFrames(s), fail)))

\* pw.sashpos(0, saved_sash_pos) when a position was saved
RestoreSash(s) ==
    IF s.saved_sash_pos # NoSash THEN [s EXCEPT !.sash_pos = s.saved_sash_pos] ELSE s

\* pw.add, side_visible and the sash restore share one suppress block
ShowSide(s) ==
    IF ~s.side_visible /\ ~s.side_shown
    THEN RestoreSash([PaneAdd(s) EXCEPT !.side_visible = TRUE])
    ELSE s

GoNormal(s) == [s EXCEPT !.mode = "NORMAL", !.tile_forced_global = FALSE]

\* _exit_fullscreen after its Tile part; an exception of that part travels on
LeaveGlobal(s, fault) ==
    IF s.exc THEN s
    ELSE RaiseIf(fault = "exit_fs_ui", GoNormal(ShowSide(SetWindow(s, FALSE))))

\* _exit_fullscreen
_exit_fullscreen(s, fail, fault) ==
    IF s.mode = "NORMAL" THEN s
    ELSE LeaveGlobal(IF s.mode = "TILE"
                     THEN _exit_tile_fullscreen_internal(s, fail, fault) ELSE s,
                     fault)

\* _toggle_fullscreen
_toggle_fullscreen(s, fail, fault) ==
    IF s.mode = "NORMAL" THEN _enter_fullscreen(s, fault)
    ELSE _exit_fullscreen(s, fail, fault)

\* _safe_toggle_fullscreen
_safe_toggle_fullscreen(s, fail, fault) ==
    Recover(_toggle_fullscreen(s, fail, fault), fail)

\* _safe_exit_fullscreen
_safe_exit_fullscreen(s, fail, fault) ==
    Recover(IF is_fullscreen(s) THEN _exit_fullscreen(s, fail, fault) ELSE s, fail)

\* tile_forced_global = True, reached when _enter_fullscreen returned
MarkForced(e) == IF e.exc THEN e ELSE [e EXCEPT !.tile_forced_global = TRUE]

\* "Enter global fullscreen if not already"
ForceGlobal(s, fault) ==
    IF s.mode = "NORMAL" THEN MarkForced(_enter_fullscreen(s, fault)) ELSE s

\* "Save grid state for ALL cells"
SaveLayouts(s, nosave) ==
    [s EXCEPT !.saved_grid_info =
        [rc \in DOMAIN s.cell_frames |->
            _save_frame_grid_info(s.cell_frames[rc], rc \in nosave)]]

\* the snapshot loop without its "if rc == cell: continue"
SnapshotCells_all(s, cell) == s.controllers

\* the cells whose flags Tile entry snapshots
SnapshotCells(s, cell) == s.controllers \ {cell}

\* the entry without "Unmute selected tile"
TileEntryPlayer_target_untouched(s, rc, cell, fail) ==
    IF rc = cell
    THEN s.players[rc]
    ELSE SetFlag(SetFlag(s.players[rc], Conn(s, rc, fail), "pause", TRUE),
                 Conn(s, rc, fail), "mute", TRUE)

\* the player of cell rc after the IPC calls of an entry into Tile(cell)
TileEntryPlayer(s, rc, cell, fail) ==
    IF rc = cell
    THEN SetFlag(s.players[rc], Conn(s, rc, fail), "mute", FALSE)
    ELSE SetFlag(SetFlag(s.players[rc], Conn(s, rc, fail), "pause", TRUE),
                 Conn(s, rc, fail), "mute", TRUE)

\* "Save and modify MPV states" and "Unmute selected tile"
SnapshotAndIsolate(s, cell, fail) ==
    [s EXCEPT
        !.saved_pause_states =
            [rc \in SnapshotCells(s, cell) |-> SavedFlag(GetFlag(s, rc, "pause", fail))],
        !.saved_mute_states =
            [rc \in SnapshotCells(s, cell) |-> SavedFlag(GetFlag(s, rc, "mute", fail))],
        !.players = [rc \in s.controllers |-> TileEntryPlayer(s, rc, cell, fail)]]

\* grid_remove on every frame but the target's
HideOthers(s, cell) ==
    [s EXCEPT !.cell_frames =
        [rc \in DOMAIN s.cell_frames |->
            IF rc # cell THEN [s.cell_frames[rc] EXCEPT !.shown = FALSE]
            ELSE s.cell_frames[rc]]]

Max1(n) == IF n > 1 THEN n ELSE 1

\* frame.grid(row=0, column=0, rowspan=max(1, rows), columnspan=max(1, cols), ...)
Maximise(s, cell) ==
    [s EXCEPT !.cell_frames[cell] =
        [row |-> 0, column |-> 0, rowspan |-> Max1(s.current_rows),
         columnspan |-> Max1(s.current_cols), pad |-> 0, shown |-> TRUE]]

MarkTile(s, cell) == [s EXCEPT !.mode = "TILE", !.active_tile = cell]

\* the try block up to the hiding of the other frames
Hidden(s, cell, fail, nosave) ==
    HideOthers(SnapshotAndIsolate(SaveLayouts(s, nosave), cell, fail), cell)

\* the try block to its end
Tiled(s, cell, fail, nosave) == MarkTile(Maximise(Hidden(s, cell, fail, nosave), cell), cell)

\* except: _emergency_reset(); raise
Abort(s, fail) == Raise(_emergency_reset(s, fail))

\* the try block of _enter_tile_fullscreen from the state e its first
\* statement left
TileBody(e, cell, fail, nosave, fault) ==
    IF e.exc THEN Abort(e, fail)
    ELSE IF fault = "tile_hide" THEN Abort(Hidden(e, cell, fail, nosave), fail)
    ELSE IF fault = "tile_ui" THEN Abort(Tiled(e, cell, fail, nosave), fail)
    ELSE Tiled(e, cell, fail, nosave)

\* _enter_tile_fullscreen
_enter_tile_fullscreen(s, cell, fail, nosave, fault) ==
    IF cell \notin DOMAIN s.cell_frames THEN s
    ELSE TileBody(ForceGlobal(s, fault), cell, fail, nosave, fault)

\* "Exit global fullscreen if it was forced by tile mode"
UnwindForced(s, fail, fault) ==
    IF s.exc THEN s
    ELSE IF s.tile_forced_global THEN _exit_fullscreen(s, fail, fault)
    ELSE s

\* _exit_tile_fullscreen
_exit_tile_fullscreen(s, fail, fault) ==
    IF s.mode # "TILE" THEN s
    ELSE Recover(UnwindForced(_exit_tile_fullscreen_internal(s, fail, fault),
                              fail, fault), fail)

\* a toggle that goes from one tile straight to another selected one
_toggle_tile_fullscreen_reentering(s, sel, fail, nosave, fault) ==
    IF s.mode = "TILE" /\ (sel = NoCell \/ sel = s.active_tile)
    THEN _exit_tile_fullscreen(s, fail, fault)
    ELSE IF sel # NoCell THEN _enter_tile_fullscreen(s, sel, fail, nosave, fault)
    ELSE s

\* _toggle_tile_fullscreen; sel is what _selected_cell() returns
_toggle_tile_fullscreen(s, sel, fail, nosave, fault) ==
    IF s.mode = "TILE" THEN _exit_tile_fullscreen(s, fail, fault)
    ELSE IF sel # NoCell THEN _enter_tile_fullscreen(s, sel, fail, nosave, fault)
    ELSE s
\* ------------------------------------------------------------ history
NoTile == [state |-> "none", from |-> "NORMAL", via |-> "none", cell |-> NoCell,
           flags |-> EmptyMap, ipc_ok |-> FALSE]

\* every registered player answers and none of the handler's calls fails
IpcOk(fail) == fail = {} /\ \A rc \in controllers : players[rc].alive

ExitOps == {"toggle_tile", "exit_tile", "escape", "f11", "fullscreen_btn"}

\* tile_pre after a handler that is not a Tile entry
AfterOp(op, fail) ==
    IF tile_pre.state = "entered" /\ op \in ExitOps
    THEN [tile_pre EXCEPT !.state = "exited", !.via = op, !.ipc_ok = @ /\ IpcOk(fail)]
    ELSE NoTile

\* tile_pre after the tile toggle: an entry records the flags the players
\* had when the handler began
AfterToggle(s, sel, fail) ==
    IF mode # "TILE" /\ s.mode = "TILE"
    THEN [state |-> "entered", from |-> mode, via |-> "none", cell |-> sel,
          flags |-> [rc \in controllers |->
                        [pause |-> players[rc].pause, mute |-> players[rc].mute]],
          ipc_ok |-> IpcOk(fail)]
    ELSE AfterOp("toggle_tile", fail)

\* What the environment does to one handler: at most one kind of
\* misbehaviour, and only while the run's budget lasts.
Quiet == [fail |-> {}, nosave |-> {}, fault |-> "none"]

IpcInputs ==
    {Quiet} \cup
    IF env_used < MaxEnv
    THEN {[Quiet EXCEPT !.fail = F] : F \in SmallSets(controllers) \ {{}}}
    ELSE {}

FaultInputs ==
    IpcInputs \cup
    IF env_used < MaxEnv
    THEN {[Quiet EXCEPT !.fault = f] : f \in FaultPoints \ {"none"}}
    ELSE {}

TileInputs ==
    FaultInputs \cup
    IF env_used < MaxEnv
    THEN {[Quiet EXCEPT !.nosave = F] : F \in SmallSets(DOMAIN cell_frames) \ {{}}}
    ELSE {}

Charge(e) == env_used' = IF e = Quiet THEN env_used ELSE env_used + 1

FrameOf == <<monitor_items, start_enabled, stop_enabled, monitor_on>>

\* ------------------------------------------------------------ UI handlers
\* <F11>
F11In(E) ==
    \E e \in E :
        /\ Commit(_safe_toggle_fullscreen(Cur, e.fail, e.fault))
        /\ recovered' = Recovered(_safe_toggle_fullscreen(Cur, e.fail, e.fault))
        /\ tile_pre' = AfterOp("f11", e.fail)
        /\ Charge(e)
        /\ UNCHANGED <<FrameOf, ipcvars, sidevars>>

\* <Escape> and the overlay's "Exit (Esc)" button
EscapeIn(E) ==
    \E e \in E :
        /\ Commit(_safe_exit_fullscreen(Cur, e.fail, e.fault))
        /\ recovered' = Recovered(_safe_exit_fullscreen(Cur, e.fail, e.fault))
        /\ tile_pre' = AfterOp("escape", e.fail)
        /\ Charge(e)
        /\ UNCHANGED <<FrameOf, ipcvars, sidevars>>

\* the Fullscreen button: command=self._toggle_fullscreen
FullscreenButtonIn(E) ==
    \E e \in E :
        /\ Commit(_toggle_fullscreen(Cur, e.fail, e.fault))
        /\ recovered' = Recovered(_toggle_fullscreen(Cur, e.fail, e.fault))
        /\ tile_pre' = AfterOp("fullscreen_btn", e.fail)
        /\ Charge(e)
        /\ UNCHANGED <<FrameOf, ipcvars, sidevars>>

\* the Tile FS button and <Double-1> on the monitor
TileToggleIn(E) ==
    \E sel \in monitor_items \cup {NoCell}, e \in E :
        LET s == _toggle_tile_fullscreen(Cur, sel, e.fail, e.nosave, e.fault)
        IN  /\ Commit(s)
            /\ recovered' = Recovered(s)
            /\ tile_pre' = AfterToggle(s, sel, e.fail)
            /\ Charge(e)
            /\ UNCHANGED <<FrameOf, ipcvars, sidevars>>

\* the overlay's "Exit Tile" button
ExitTileButtonIn(E) ==
    \E e \in E :
        /\ Commit(_exit_tile_fullscreen(Cur, e.fail, e.fault))
        /\ recovered' = Recovered(_exit_tile_fullscreen(Cur, e.fail, e.fault))
        /\ tile_pre' = AfterOp("exit_tile", e.fail)
        /\ Charge(e)
        /\ UNCHANGED <<FrameOf, ipcvars, sidevars>>

\* the overlay's "Reset" button
ResetButtonIn(E) ==
    \E e \in E :
        /\ Commit(_emergency_reset(Cur, e.fail))
        /\ recovered' = "button"
        /\ tile_pre' = NoTile
        /\ Charge(e)
        /\ UNCHANGED <<FrameOf, ipcvars, sidevars>>

\* _toggle_pause_all
PauseAllIn(E) ==
    \E e \in E :
        /\ players' = [rc \in controllers |->
                          CycleFlag(players[rc], Conn(Cur, rc, e.fail), "pause")]
        /\ raised' = FALSE
        /\ recovered' = "no"
        /\ tile_pre' = NoTile
        /\ Charge(e)
        /\ UNCHANGED <<fsvars, appvars, tkvars, ipcvars, sidevars>>

\* _mute_all
MuteAllIn(E) ==
    \E e \in E :
        /\ players' = [rc \in controllers |->
                          CycleFlag(players[rc], Conn(Cur, rc, e.fail), "mute")]
        /\ raised' = FALSE
        /\ recovered' = "no"
        /\ tile_pre' = NoTile
        /\ Charge(e)
        /\ UNCHANGED <<fsvars, appvars, tkvars, ipcvars, sidevars>>

\* ------------------------------------------------------------ lifecycle
\* a start that takes back the cells it spawned when a launch raises
Spawned_rolled_back(rows, cols, fail_at) ==
    IF fail_at < rows * cols THEN {} ELSE GridCells(rows, cols)

\* the cells _start_grid has spawned when the launch at position fail_at in
\* spawn order raises (fail_at = rows * cols: every launch works)
Spawned(rows, cols, fail_at) ==
    {rc \in GridCells(rows, cols) : rc[1] * cols + rc[2] < fail_at}

\* _build_wall_grid(rows, cols)
Built(s, rows, cols) ==
    [s EXCEPT !.current_rows = rows, !.current_cols = cols,
              !.cell_frames = [rc \in GridCells(rows, cols) |-> DefaultLayout(rc)]]

\* the registry after the spawn loop: controllers is never cleared here
Registered(s, fresh) ==
    [s EXCEPT !.controllers = @ \cup fresh,
              !.players = [rc \in s.controllers \cup fresh |->
                              IF rc \in fresh THEN FreshPlayer ELSE s.players[rc]]]

\* _start_grid with rows x cols, on the window
StartGridAt(rows, cols, fail_at) ==
    /\ start_enabled
    /\ Commit(Registered(reset(Built(Cur, rows, cols)), Spawned(rows, cols, fail_at)))
    /\ recovered' = "no"
    /\ monitor_items' = Spawned(rows, cols, fail_at)
    /\ start_enabled' = IF fail_at = rows * cols THEN FALSE ELSE start_enabled
    /\ stop_enabled' = IF fail_at = rows * cols THEN TRUE ELSE stop_enabled
    /\ monitor_on' = IF fail_at = rows * cols THEN TRUE ELSE monitor_on
    /\ tile_pre' = NoTile
    /\ env_used' = IF fail_at = rows * cols THEN env_used ELSE env_used + 1

\* the positions at which a launch may fail
FailPoints(rows, cols, failures) ==
    (IF failures /\ env_used < MaxEnv THEN 0 ELSE rows * cols) .. rows * cols

StartGridIn(R, C, failures) ==
    \E rows \in 1 .. R, cols \in 1 .. C :
    \E fail_at \in FailPoints(rows, cols, failures) :
        /\ StartGridAt(rows, cols, fail_at)
        /\ UNCHANGED <<ipcvars, sidevars>>

\* _stop_all after its termination loop: the registry and the wall are
\* cleared, then fs_state.reset(); side_visible is tested after reset()
Cleared(s) == [s EXCEPT !.controllers = {}, !.players = EmptyMap, !.cell_frames = EmptyMap]

\* "if not self.fs_state.side_visible: pw.add(...); side_visible = True"
ReaddAndMark(s) ==
    IF ~s.side_visible THEN [PaneAdd(s) EXCEPT !.side_visible = TRUE] ELSE s

StopAllOnWindow ==
    /\ Commit(ReaddAndMark(SetWindow(reset(Cleared(Cur)), FALSE)))
    /\ recovered' = "no"
    /\ start_enabled' = TRUE
    /\ stop_enabled' = FALSE
    /\ monitor_on' = FALSE
    /\ tile_pre' = NoTile
    /\ UNCHANGED <<monitor_items, env_used>>

\* the Stop button
StopAll ==
    /\ stop_enabled
    /\ StopAllOnWindow
    /\ UNCHANGED <<ipcvars, sidevars>>

\* _monitor_loop finds no tracked process alive; its callbacks enable
\* Start and disable Stop
AllTilesClosed ==
    /\ monitor_on
    /\ \A rc \in controllers : ~players[rc].alive
    /\ start_enabled' = TRUE
    /\ stop_enabled' = FALSE
    /\ monitor_on' = FALSE
    /\ raised' = FALSE
    /\ recovered' = "no"
    /\ tile_pre' = NoTile
    /\ UNCHANGED <<fsvars, cell_frames, controllers, monitor_items, current_rows,
                   current_cols, tkvars, players, env_used, ipcvars, sidevars>>

\* ------------------------------------------------------------ environment
\* a key pressed inside one player (space: cycle pause, m: cycle mute)
PlayerKey ==
    \E rc \in controllers, prop \in {"pause", "mute"} :
        /\ env_used < MaxEnv
        /\ players[rc].alive
        /\ players' = [players EXCEPT ![rc] = CycleFlag(@, "connected", prop)]
        /\ env_used' = env_used + 1
        /\ raised' = FALSE
        /\ recovered' = "no"
        /\ tile_pre' = NoTile
        /\ UNCHANGED <<fsvars, appvars, tkvars, ipcvars, sidevars>>

\* a player process exits
PlayerExit ==
    \E rc \in controllers :
        /\ env_used < MaxEnv
        /\ players[rc].alive
        /\ players' = [players EXCEPT ![rc] = DeadPlayer]
        /\ env_used' = env_used + 1
        /\ raised' = FALSE
        /\ recovered' = "no"
        /\ tile_pre' = NoTile
        /\ UNCHANGED <<fsvars, appvars, tkvars, ipcvars, sidevars>>

\* the user drags the sash between the wall and the side panel
MoveSash ==
    \E p \in SashPositions :
        /\ env_used < MaxEnv
        /\ side_shown
        /\ p # sash_pos
        /\ sash_pos' = p
        /\ env_used' = env_used + 1
        /\ raised' = FALSE
        /\ recovered' = "no"
        /\ tile_pre' = NoTile
        /\ UNCHANGED <<fsvars, appvars, window_fullscreen, side_shown, players,
                       ipcvars, sidevars>>

\* ------------------------------------------------------------ broadcast bus
\* Socket paths and globs are strings, written as sequences of tokens: the
\* literal pieces of the f-strings, "-", "*" and decimal digits.
MaxWalls == 2
MaxCells == 2

PathHead == "/tmp/mpv-grid-"
PathTail == ".sock"
Dash == "-"
Star == "*"

DigitChars == <<"0", "1", "2", "3", "4", "5", "6", "7", "8", "9">>

\* str(n) of a non-negative int
RECURSIVE Decimal(_)
Decimal(n) ==
    IF n < 10 THEN <<DigitChars[n + 1]>>
    ELSE Decimal(n \div 10) \o <<DigitChars[(n % 10) + 1]>>

\* self.grid_id = f"{os.getpid()}-{int(time.time())}"
grid_id(pid, started) == Decimal(pid) \o <<Dash>> \o Decimal(started)

\* f"/tmp/mpv-grid-{self.grid_id}-{row}-{col}.sock"
socket_path(gid, rc) ==
    <<PathHead>> \o gid \o <<Dash>> \o Decimal(rc[1]) \o <<Dash>> \o Decimal(rc[2])
        \o <<PathTail>>

\* env["MPV_GRID_SOCKET_GLOB"] = f"/tmp/mpv-grid-{self.grid_id}-*.sock"
socket_glob(gid) == <<PathHead>> \o gid \o <<Dash, Star, PathTail>>

\* the default of os.environ.get("MPV_GRID_SOCKET_GLOB", ...)
DefaultGlob == <<PathHead, Star, PathTail>>

\* the position of the one "*" of a pattern
StarAt(pat) == CHOOSE i \in 1 .. Len(pat) : pat[i] = Star

\* glob.glob on names without "/": the text before "*" is a prefix of the
\* name, the text after it a suffix, and the two do not overlap
Matches(pat, path) ==
    /\ Len(path) >= Len(pat) - 1
    /\ \A i \in 1 .. StarAt(pat) - 1 : path[i] = pat[i]
    /\ \A k \in 1 .. Len(pat) - StarAt(pat) :
          path[Len(path) - k + 1] = pat[Len(pat) - k + 1]

\* the first character of a token, as its code point
Code(tok) ==
    CASE tok = Star -> 42
      [] tok = Dash -> 45
      [] tok = PathTail -> 46
      [] tok = PathHead -> 47
      [] OTHER -> 47 + (CHOOSE d \in 1 .. 10 : DigitChars[d] = tok)

\* a < b for str; the tokens after a literal piece never decide, since two
\* paths that share their tokens up to a piece agree on all of it
RECURSIVE StrLess(_, _)
StrLess(a, b) ==
    IF a = <<>> THEN b # <<>>
    ELSE IF b = <<>> THEN FALSE
    ELSE IF Head(a) = Head(b) THEN StrLess(Tail(a), Tail(b))
    ELSE Code(Head(a)) < Code(Head(b))

\* sorted(paths)
RECURSIVE sorted(_)
sorted(S) ==
    IF S = {} THEN <<>>
    ELSE <<CHOOSE x \in S : \A y \in S : x = y \/ StrLess(x, y)>>
         \o sorted(S \ {CHOOSE x \in S : \A y \in S : x = y \/ StrLess(x, y)})

\* what is behind a path under /tmp
SocketKinds == {"live", "stale", "deaf"}

\* send_ipc_command without its except clause
send_ipc_command_raising(kind) ==
    IF kind = "live" THEN [ok |-> TRUE, raised |-> FALSE, delivered |-> TRUE]
    ELSE [ok |-> FALSE, raised |-> TRUE, delivered |-> FALSE]

\* send_ipc_command: connect and send; every exception becomes False
send_ipc_command(kind) ==
    IF kind = "live" THEN [ok |-> TRUE, raised |-> FALSE, delivered |-> TRUE]
    ELSE [ok |-> FALSE, raised |-> FALSE, delivered |-> FALSE]

\* the action strings an invoker can pass, as sequences of characters
ActionTexts ==
    { <<"n", "e", "x", "t">>,
      <<"s", "h", "u", "f", "f", "l", "e">>,
      <<" ", "N", "E", "X", "T", " ">>,
      <<"S", "h", "u", "f", "f", "l", "e">>,
      <<"n", "e", "x", "t", "\n">>,
      <<"p", "r", "e", "v">>,
      <<"n", "e", "x", "t", " ", "s", "h", "u", "f", "f", "l", "e">>,
      <<>> }

Whitespace == {" ", "\t", "\n"}

Upper == <<"E", "N", "S", "T", "X">>
Lower == <<"e", "n", "s", "t", "x">>

\* str.lower on one character
lower(ch) ==
    IF \E i \in 1 .. Len(Upper) : Upper[i] = ch
    THEN Lower[CHOOSE i \in 1 .. Len(Upper) : Upper[i] = ch]
    ELSE ch

\* str.strip: drop the leading and the trailing whitespace
RECURSIVE lstrip(_)
lstrip(text) ==
    IF text # <<>> /\ Head(text) \in Whitespace THEN lstrip(Tail(text)) ELSE text

RECURSIVE rstrip(_)
rstrip(text) ==
    IF text # <<>> /\ text[Len(text)] \in Whitespace
    THEN rstrip(SubSeq(text, 1, Len(text) - 1)) ELSE text

\* action.strip().lower()
StripLower(action) == [i \in 1 .. Len(rstrip(lstrip(action))) |-> lower(rstrip(lstrip(action))[i])]

\* the match statement with a default command in place of the raise
Command_defaulting(action) ==
    CASE action = <<"s", "h", "u", "f", "f", "l", "e">> -> <<"script-message", "grid-sync-shuffle">>
      [] OTHER -> <<"script-message", "grid-sync-next">>

\* the match statement; <<>> stands for the raise of case _
Command(action) ==
    CASE action = <<"n", "e", "x", "t">> -> <<"script-message", "grid-sync-next">>
      [] action = <<"s", "h", "u", "f", "f", "l", "e">> -> <<"script-message", "grid-sync-shuffle">>
      [] OTHER -> <<>>

NoOut == [exit |-> "none", count |-> 0, sent |-> EmptyMap, cmd |-> <<>>]

\* one step of the generator sum() consumes: path p after the paths of out
SendTo(out, p, r) ==
    IF r.raised THEN [out EXCEPT !.exit = "raised"]
    ELSE [out EXCEPT !.count = @ + (IF r.ok THEN 1 ELSE 0),
                     !.sent = [q \in DOMAIN @ \cup {p} |->
                                  (IF q \in DOMAIN @ THEN @[q] ELSE 0)
                                  + (IF q = p /\ r.delivered THEN 1 ELSE 0)]]

\* sum(send_ipc_command(p, cmd) for p in ...): an exception ends the sum
RECURSIVE SumSends(_, _, _)
SumSends(paths, sockets, out) ==
    IF paths = <<>> \/ out.exit = "raised" THEN out
    ELSE SumSends(Tail(paths), sockets,
                  SendTo(out, Head(paths), send_ipc_command(sockets[Head(paths)])))

Returned(out) == IF out.exit = "raised" THEN out ELSE [out EXCEPT !.exit = "returned"]

\* broadcast(action, sock_glob); sockets is the content of /tmp
broadcast(action, sock_glob, sockets) ==
    IF Command(StripLower(action)) = <<>>
    THEN [NoOut EXCEPT !.exit = "SystemExit"]
    ELSE Returned(SumSends(sorted({p \in DOMAIN sockets : Matches(sock_glob, p)}),
                           sockets,
                           [NoOut EXCEPT !.cmd = Command(StripLower(action))]))

\* the process ids and start times (seconds) the walls of one host can have
Pids == {1, 12}
StartTimes == {2}
GridIds == {grid_id(pid, t) : pid \in Pids, t \in StartTimes}

\* the cells of a wall of n players in one row
RowCells(n) == {<<0, c>> : c \in 0 .. n - 1}

\* the socket paths a wall gives its cells
WallPaths(gid) == {socket_path(gid, rc) : rc \in RowCells(MaxCells)}

\* the running wall with process id pid, if any
WallOfPid(pid) == {w \in bus_walls : \E t \in StartTimes : w = grid_id(pid, t)}

\* what the bindings N and S of a player pass to the helper
KeyActions == {<<"n", "e", "x", "t">>, <<"s", "h", "u", "f", "f", "l", "e">>}

NoCall == [action |-> <<>>, glob |-> <<>>, from |-> "none", wall |-> <<>>]

BusIdle ==
    /\ bus_sockets = EmptyMap
    /\ bus_walls = {}
    /\ bus_call = NoCall
    /\ bus_out = NoOut

\* ------------------------------------------------------------ processes
MaxProcs == 3
MaxStops == 2

MaxFiles == 3

\* file names as sequences of pieces: a stem, then a suffix if there is one
FileStems == <<"a", "b", "c", "d", "e">>
Suffixes == {".mp4", ".mkv"}

\* what scan_files finds in the source directory, sorted
all_files == [i \in 1 .. MaxFiles |-> <<FileStems[i], ".mp4">>]

\* random.shuffle: the orders a list can come out in
Shuffles(list) ==
    {[i \in 1 .. Len(list) |-> list[f[i]]] :
        f \in {g \in [1 .. Len(list) -> 1 .. Len(list)] :
                  \A i \in 1 .. Len(list), j \in 1 .. Len(list) : g[i] = g[j] => i = j}}

\* two of these orders, where the order itself does not matter
TwoShuffles(list) == {list, [i \in 1 .. Len(list) |-> list[Len(list) + 1 - i]]}

\* the cells in the order of the spawn loop
RECURSIVE SpawnOrder(_, _, _)
SpawnOrder(rows, cols, n) ==
    IF n = 0 THEN <<>>
    ELSE SpawnOrder(rows, cols, n - 1) \o <<<<(n - 1) \div cols, (n - 1) % cols>>>>

\* subprocess.Popen for each spawned cell, appended to self.processes
NewProcesses(rows, cols, fail_at) ==
    [i \in 1 .. fail_at |-> [cell |-> SpawnOrder(rows, cols, fail_at)[i], alive |-> TRUE]]

\* how a process answers terminate(), wait(timeout=2) and kill()
Tempers == {"obeys", "wait_times_out", "terminate_raises", "kill_raises"}

\* the body of the termination loop without its try / except
StopOne_unguarded(proc, temper) ==
    IF ~proc.alive THEN [result |-> "exited", raised |-> FALSE]
    ELSE IF temper = "obeys" THEN [result |-> "terminated", raised |-> FALSE]
    ELSE [result |-> "running", raised |-> TRUE]

\* the body of the termination loop: terminate(), wait(timeout=2); on an
\* exception kill(), whose own exception is suppressed. terminate() and
\* wait() of a process that has exited return at once
StopOne(proc, temper) ==
    IF ~proc.alive THEN [result |-> "exited", raised |-> FALSE]
    ELSE CASE temper = "obeys" -> [result |-> "terminated", raised |-> FALSE]
           [] temper = "wait_times_out" -> [result |-> "killed", raised |-> FALSE]
           [] temper = "terminate_raises" -> [result |-> "killed", raised |-> FALSE]
           [] temper = "kill_raises" -> [result |-> "running", raised |-> FALSE]

\* for proc in self.processes: an exception ends the loop
RECURSIVE TerminateAll(_, _, _)
TerminateAll(procs, tempers, out) ==
    IF procs = <<>> \/ out.exc = "raised" THEN out
    ELSE TerminateAll(Tail(procs), Tail(tempers),
                      [exc |-> IF StopOne(Head(procs), Head(tempers)).raised
                               THEN "raised" ELSE "none",
                       results |-> Append(out.results,
                                          StopOne(Head(procs), Head(tempers)).result)])

NoStop == [calls |-> 0, exc |-> "none", was |-> "NORMAL", procs |-> <<>>,
           tempers |-> <<>>, results |-> <<>>]

LifeIdle ==
    /\ processes = <<>>
    /\ playlists = EmptyMap
    /\ stop_log = NoStop

\* ------------------------------------------------------------ rename
MaxRenames == 1
Duration == 6

\* where skipper.lua seeks to: 33% of the duration, in whole seconds
SkipTarget == (Duration * 33) \div 100

NoPath == <<>>

\* the texts the user can give the rename dialog (<<>>: nothing, or Cancel)
NewNames ==
    { <<"d">>, <<"b">>, <<"e", ".mkv">>, <<"x", "/", "d">>, <<"x", "\\", "d">>, <<>> }

\* Path(name).suffix
Suffix(name) ==
    IF name # <<>> /\ name[Len(name)] \in Suffixes THEN <<name[Len(name)]>> ELSE <<>>

\* '"/" in new_name or "\\" in new_name'
HasSeparator(name) == \E i \in 1 .. Len(name) : name[i] \in {"/", "\\"}

\* new_name if Path(new_name).suffix else new_name + old_path.suffix
target_name(new_name, old_path) ==
    IF Suffix(new_name) # <<>> THEN new_name ELSE new_name \o Suffix(old_path)

\* list operations of the player, on 0-based indices
RemoveAt(list, i) ==
    [k \in 1 .. Len(list) - 1 |-> IF k <= i THEN list[k] ELSE list[k + 1]]

InsertAt(list, i, x) ==
    [k \in 1 .. Len(list) + 1 |->
        IF k <= i THEN list[k] ELSE IF k = i + 1 THEN x ELSE list[k - 1]]

Holds(list, x) == \E k \in 1 .. Len(list) : list[k] = x

\* list.index(x), for a list that holds x
IndexOf(list, x) == (CHOOSE k \in 1 .. Len(list) : list[k] = x /\ \A j \in 1 .. k - 1 : list[j] # x) - 1

\* the player's "path" property
PathOf(m) == IF m.pos \in 0 .. Len(m.playlist) - 1 THEN m.playlist[m.pos + 1] ELSE NoPath

\* the player starts the entry at its position: the file-loaded event arms
\* skipper.lua's timer
Loaded(m) == [m EXCEPT !.time_pos = 0, !.armed = TRUE]

\* the player after its --playlist has started: skipper.lua has run for the
\* first file
StartedPlayer(list, positional) ==
    [playlist |-> list, pos |-> 0, time_pos |-> SkipTarget, pause |-> FALSE,
     seen |-> {list[1]}, armed |-> FALSE, positional |-> positional, swap |-> <<>>]

\* the player's list becomes list and its position follows the entry it plays
Relisted(m, list) ==
    [m EXCEPT !.playlist = list,
              !.pos = IF PathOf(m) # NoPath /\ Holds(list, PathOf(m))
                      THEN IndexOf(list, PathOf(m)) ELSE -1]

\* playlist-remove idx: removing the current entry starts the next one, or
\* leaves the player idle after the last
playlist_remove(m, idx) ==
    IF idx \notin 0 .. Len(m.playlist) - 1 THEN m
    ELSE IF idx # m.pos THEN Relisted(m, RemoveAt(m.playlist, idx))
    ELSE IF idx < Len(m.playlist) - 1
         THEN Loaded([m EXCEPT !.playlist = RemoveAt(m.playlist, idx)])
         ELSE [m EXCEPT !.playlist = RemoveAt(m.playlist, idx), !.pos = -1, !.time_pos = 0]

\* loadfile path insert-at idx: an error on a player without positional insert
loadfile_insert_at(m, path, idx) ==
    IF ~m.positional THEN m
    ELSE IF idx >= Len(m.playlist) THEN Relisted(m, Append(m.playlist, path))
    ELSE Relisted(m, InsertAt(m.playlist, idx, path))

\* loadfile path append
loadfile_append(m, path) == Relisted(m, Append(m.playlist, path))

\* playlist-move index1 index2: the entry at index1 is put before the entry
\* that is at index2
playlist_move(m, index1, index2) ==
    IF index1 \notin 0 .. Len(m.playlist) - 1 \/ index2 \notin 0 .. Len(m.playlist)
    THEN m
    ELSE Relisted(m, InsertAt(RemoveAt(m.playlist, index1),
                              IF index1 < index2 THEN index2 - 1 ELSE index2,
                              m.playlist[index1 + 1]))

\* playlist-play-index idx
playlist_play_index(m, idx) ==
    IF idx \notin 0 .. Len(m.playlist) - 1 THEN m ELSE Loaded([m EXCEPT !.pos = idx])

\* playlist-next: nothing at the end of the list
playlist_next(m) ==
    IF m.pos + 1 \in 0 .. Len(m.playlist) - 1 THEN Loaded([m EXCEPT !.pos = m.pos + 1]) ELSE m

\* skipper.lua's skip_once, when its timer fires
skip_once(m) ==
    IF PathOf(m) = NoPath \/ PathOf(m) \in m.seen
    THEN [m EXCEPT !.armed = FALSE]
    ELSE [m EXCEPT !.armed = FALSE, !.seen = @ \cup {PathOf(m)}, !.time_pos = SkipTarget]

\* _update_playlist_entry_noncurrent after its playlist-remove, on a player
\* that refused insert-at: append, then move the last entry to idx
AppendAndMove(m, idx, new_path) ==
    playlist_move(loadfile_append(m, new_path), Len(m.playlist), idx)

\* _update_playlist_entry_noncurrent after its playlist-remove
InsertOrAppend(m, idx, new_path) ==
    IF m.positional THEN loadfile_insert_at(m, new_path, idx)
    ELSE AppendAndMove(m, idx, new_path)

_update_playlist_entry_noncurrent(m, idx, new_path) ==
    InsertOrAppend(playlist_remove(m, idx), idx, new_path)

\* _replace_current_entry up to its polling loop: time-pos and pause are
\* read, the new path is inserted behind the current entry and started
SwapBegun(m, idx, new_path) ==
    [playlist_play_index(loadfile_insert_at(m, new_path, idx + 1), idx + 1)
        EXCEPT !.swap = <<[pos_f |-> m.time_pos, paused |-> m.pause, idx |-> idx]>>]

BeginSwap(m, idx, new_path) ==
    IF ~m.positional THEN m ELSE SwapBegun(m, idx, new_path)

\* _replace_current_entry after its polling loop: pause, seek to the
\* position read before, restore pause, remove the old entry
FinishSwap(m) ==
    [playlist_remove([m EXCEPT !.time_pos = m.swap[1].pos_f, !.pause = m.swap[1].paused],
                     m.swap[1].idx)
        EXCEPT !.swap = <<>>]

\* the loop body of _rename_selected_current on the player of one cell
\* whose in-memory playlist is list
UpdatePlayer(m, list, old_path, new_path) ==
    IF ~Holds(list, old_path) THEN m
    ELSE IF IndexOf(list, old_path) = m.pos
         THEN BeginSwap(m, IndexOf(list, old_path), new_path)
         ELSE _update_playlist_entry_noncurrent(m, IndexOf(list, old_path), new_path)

\* the old path dropped and the new one put at the end
Renamed_at_end(list, old_path, new_path) ==
    IF ~Holds(list, old_path) THEN list
    ELSE Append(RemoveAt(list, IndexOf(list, old_path)), new_path)

\* pl[idx] = new_path, where the list holds old_path
Renamed(list, old_path, new_path) ==
    IF ~Holds(list, old_path) THEN list
    ELSE [list EXCEPT ![IndexOf(list, old_path) + 1] = new_path]

\* _rename_selected_current without its test of new_path.exists()
Outcome_overwriting(old_path, new_name, files) ==
    IF old_path = NoPath \/ old_path \notin files THEN "not_local"
    ELSE IF new_name = <<>> THEN "cancelled"
    ELSE IF HasSeparator(new_name) THEN "invalid_name"
    ELSE "renamed"

\* how _rename_selected_current ends for the selected player's path, the
\* user's text and the files on disk
Outcome(old_path, new_name, files) ==
    IF old_path = NoPath \/ old_path \notin files THEN "not_local"
    ELSE IF new_name = <<>> THEN "cancelled"
    ELSE IF HasSeparator(new_name) THEN "invalid_name"
    ELSE IF target_name(new_name, old_path) \in files THEN "target_exists"
    ELSE "renamed"

\* the outcomes that show an error dialog
Errors == {"not_local", "invalid_name", "target_exists"}

NoRename == [calls |-> 0, outcome |-> "none", cell |-> NoCell, text |-> <<>>,
             old |-> NoPath, new |-> NoPath, lists |-> EmptyMap, swapped |-> EmptyMap]

RenameIdle ==
    /\ disk = {all_files[i] : i \in 1 .. Len(all_files)}
    /\ media = EmptyMap
    /\ rename_log = NoRename

\* ------------------------------------------------------------ the hot swap
\* _replace_current_entry one command at a time. The player takes the
\* commands in order; a file it has been told to play is loading until the
\* player has opened it, and during that time the path property does not
\* name it and a seek has nothing to seek in.
\* the polls that fit before the deadline (2.0 s at 0.05 s a round)
MaxPolls == 2

\* the renamed file's new path
SwapNewPath == <<"d", ".mp4">>

\* a command with its number argument (an index, or seconds)
Cmd(name, n) == <<name, n>>

\* set_property("pause", b) as it goes over the wire
PauseCmd(b) == IF b THEN "set pause yes" ELSE "set pause no"

NoSwapCall ==
    [pc |-> "idle", m |-> StartedPlayer(all_files, TRUE), idx |-> 0, pos_f |-> 0,
     paused |-> FALSE, polls |-> 0, loading |-> FALSE, seen |-> FALSE, cmds |-> <<>>]

SwapIdle == swap_call = NoSwapCall

\* the players a call can meet: any entry current, at some second, playing
\* or paused, with or without positional insert
SwapPlayers ==
    {[StartedPlayer(all_files, positional) EXCEPT !.pos = i, !.time_pos = t, !.pause = b] :
        positional \in BOOLEAN, i \in 0 .. MaxFiles - 1,
        t \in {SkipTarget, Duration - 1}, b \in BOOLEAN}

Issued(c, name, n) == [c EXCEPT !.cmds = Append(@, Cmd(name, n))]

\* pos = get_property("time-pos"); paused = bool(get_property("pause") or False)
Captured(c, m, idx) ==
    Issued(Issued([c EXCEPT !.pc = "load", !.m = m, !.idx = idx, !.pos_f = m.time_pos,
                            !.paused = m.pause],
                  "get time-pos", 0),
           "get pause", 0)

\* resp = send_command("loadfile", new_path, "insert-at", idx + 1);
\* "if not self._mpv_ok(resp): return"
LoadSent(c) ==
    [Issued(c, "loadfile insert-at", c.idx + 1)
        EXCEPT !.m = loadfile_insert_at(c.m, SwapNewPath, c.idx + 1),
               !.pc = IF c.m.positional THEN "play" ELSE "done"]

\* the call going on to the seek without its polling loop
AfterPlayIndex_unpolled(c) == [c EXCEPT !.pc = "pause"]

\* the statement after send_command("playlist-play-index", idx + 1)
AfterPlayIndex(c) == [c EXCEPT !.pc = "poll"]

\* send_command("playlist-play-index", idx + 1): the player starts to load
PlaySent(c) ==
    AfterPlayIndex([Issued(c, "playlist-play-index", c.idx + 1)
                       EXCEPT !.m = playlist_play_index(c.m, c.idx + 1), !.loading = TRUE])

\* the player's path property
PathReported(c) == IF c.loading THEN NoPath ELSE PathOf(c.m)

\* one round of the loop: get_property("path"), break when it is the new path
Polled(c) ==
    IF PathReported(c) = SwapNewPath
    THEN [Issued(c, "get path", 0) EXCEPT !.seen = TRUE, !.pc = "pause"]
    ELSE [Issued(c, "get path", 0) EXCEPT !.polls = c.polls + 1]

\* set_property("pause", True)
PauseSent(c) == [Issued(c, PauseCmd(TRUE), 0) EXCEPT !.m.pause = TRUE, !.pc = "seek"]

\* set_property("time-pos", pos_f)
SeekSent(c) ==
    [Issued(c, "set time-pos", c.pos_f)
        EXCEPT !.m.time_pos = IF c.loading THEN @ ELSE c.pos_f, !.pc = "restore"]

\* set_property("pause", paused)
RestoreSent(c) ==
    [Issued(c, PauseCmd(c.paused), 0) EXCEPT !.m.pause = c.paused, !.pc = "remove"]

\* send_command("playlist-remove", idx)
RemoveSent(c) ==
    [Issued(c, "playlist-remove", c.idx)
        EXCEPT !.m = playlist_remove(c.m, c.idx), !.pc = "done"]

\* ------------------------------------------------------------ toggle-loop.lua
MaxToggles == 3

\* MPVConfig.loop_file, passed as --loop-file
ConfigLoop == "no"

\* a player and the script's locals before any file is loaded
FreshLua == [loop_file |-> ConfigLoop, default_loop |-> "no", state |-> "default", pos |-> 0]

\* the script's file-loaded handler: the entry at index pos has been loaded
on_file_loaded(p, pos) ==
    [p EXCEPT !.pos = pos,
              !.default_loop = p.loop_file,
              !.state = IF p.loop_file = "inf" THEN "inf" ELSE "default"]

\* toggle_loop_file, the function behind toggle-custom-loop
toggle_loop_file(p) ==
    IF p.state = "default" THEN [p EXCEPT !.loop_file = "inf", !.state = "inf"]
    ELSE [p EXCEPT !.loop_file = p.default_loop, !.state = "default"]

NoToggle == [toggles |-> 0, cell |-> NoCell, before |-> "no", after |-> "no"]

LoopIdle ==
    /\ lua = EmptyMap
    /\ loop_log = NoToggle

\* ------------------------------------------------------------ grid-sync.lua
\* playlist-next force: after the last entry playback stops and the player,
\* started with --idle=yes, stays idle
playlist_next_force(m) ==
    IF m.pos \in 0 .. Len(m.playlist) - 2 THEN playlist_next(m)
    ELSE [m EXCEPT !.pos = -1, !.time_pos = 0]

\* the handler without its test of loop-file
handle_grid_sync_next_unconditional(m, loop_val) ==
    [m |-> playlist_next_force(m), cmds |-> << <<"playlist-next", "force">> >>]

\* handle_grid_sync_next: loop_val is mp.get_property("loop-file", "no");
\* cmds are the commands given to mp.commandv
handle_grid_sync_next(m, loop_val) ==
    IF loop_val = "inf" THEN [m |-> m, cmds |-> <<>>]
    ELSE [m |-> playlist_next_force(m), cmds |-> << <<"playlist-next", "force">> >>]

\* handle_grid_sync_shuffle; list is the order playlist-shuffle comes up with
handle_grid_sync_shuffle(m, list) ==
    [m |-> Relisted(m, list), cmds |-> << <<"playlist-shuffle">> >>]

NoSync == [msg |-> "none", cell |-> NoCell, loop |-> "no", before |-> <<>>, cmds |-> <<>>]

SyncIdle == sync_log = NoSync

\* ------------------------------------------------------------ spawned cells
\* callbacks of the monitor thread that wait in the event loop at one time
MaxQueued == 2

\* self.grid_id of the wall whose processes are followed
ThisWall == grid_id(1, 2)

\* the cells whose _spawn_cell was entered: those spawned and, when a launch
\* raised, the cell it was for
Attempts(rows, cols, fail_at) ==
    {rc \in GridCells(rows, cols) : rc[1] * cols + rc[2] <= fail_at}

\* /tmp after the spawn loop: _spawn_cell unlinks the cell's socket path, and
\* the player that was launched binds it
SocketsAfterSpawn(sockets, rows, cols, fail_at) ==
    [p \in (DOMAIN sockets \ {socket_path(ThisWall, rc) : rc \in Attempts(rows, cols, fail_at)})
            \cup {socket_path(ThisWall, rc) : rc \in Spawned(rows, cols, fail_at)} |->
        IF \E rc \in Spawned(rows, cols, fail_at) : p = socket_path(ThisWall, rc)
        THEN "live" ELSE sockets[p]]

\* how _start_grid ended: the except clause shows the error dialog; launches
\* counts the calls of subprocess.Popen
StartOutcome(rows, cols, fail_at) ==
    [rows |-> rows, cols |-> cols, fail_at |-> fail_at,
     error |-> fail_at < rows * cols,
     launches |-> Cardinality(Attempts(rows, cols, fail_at))]

NoStart == [rows |-> 0, cols |-> 0, fail_at |-> 0, error |-> FALSE, launches |-> 0]

\* a monitor thread that configures the two buttons itself
root_after_inline(queue, start, stop) == [queue |-> queue, start |-> TRUE, stop |-> FALSE]

\* the three root.after(0, ...) calls of the monitor thread: the callbacks
\* are queued for the event loop, the buttons are not touched
root_after(queue, start, stop) == [queue |-> queue + 1, start |-> start, stop |-> stop]

\* a monitor thread that takes every tracked process for alive
alive_unpolled(procs) == Len(procs)

\* sum(1 for p in self.processes if p.poll() is None)
alive(procs) == Cardinality({i \in 1 .. Len(procs) : procs[i].alive})

SpawnIdle ==
    /\ tmpdir = {}
    /\ start_log = NoStart
    /\ after_queue = 0

\* ------------------------------------------------------------ specification
IpcIdle ==
    /\ ipc_conn = "connected"
    /\ ipc_reply = ReplySuccess
    /\ ipc_result = [py |-> "none", d |-> EmptyMap]
    /\ ipc_value = [raised |-> FALSE, value |-> None]

\* MPVGridApp.__init__ and FullscreenState()
GuiInit ==
    /\ mode = "NORMAL"
    /\ active_tile = NoCell
    /\ saved_sash_pos = NoSash
    /\ side_visible = TRUE
    /\ saved_grid_info = EmptyMap
    /\ saved_pause_states = EmptyMap
    /\ saved_mute_states = EmptyMap
    /\ tile_forced_global = FALSE
    /\ cell_frames = EmptyMap
    /\ controllers = {}
    /\ monitor_items = {}
    /\ current_rows = 0
    /\ current_cols = 0
    /\ start_enabled = TRUE
    /\ stop_enabled = FALSE
    /\ monitor_on = FALSE
    /\ window_fullscreen = FALSE
    /\ side_shown = TRUE
    /\ sash_pos = SashAfterAdd
    /\ players = EmptyMap
    /\ env_used = 0
    /\ raised = FALSE
    /\ recovered = "no"
    /\ tile_pre = NoTile

\* nothing has happened outside the window
SideIdle ==
    BusIdle /\ LifeIdle /\ RenameIdle /\ LoopIdle /\ SpawnIdle /\ SyncIdle /\ SwapIdle

Init == GuiInit /\ IpcIdle /\ SideIdle

\* the handlers under an environment that may misbehave
F11 == F11In(FaultInputs)
Escape == EscapeIn(FaultInputs)
FullscreenButton == FullscreenButtonIn(FaultInputs)
TileToggle == TileToggleIn(TileInputs)
ExitTileButton == ExitTileButtonIn(FaultInputs)
ResetButton == ResetButtonIn(IpcInputs)
PauseAll == PauseAllIn(IpcInputs)
MuteAll == MuteAllIn(IpcInputs)
StartGrid == StartGridIn(MaxRows, MaxCols, TRUE)

Next ==
    \/ F11
    \/ Escape
    \/ FullscreenButton
    \/ TileToggle
    \/ ExitTileButton
    \/ ResetButton
    \/ PauseAll
    \/ MuteAll
    \/ StartGrid
    \/ StopAll
    \/ AllTilesClosed
    \/ PlayerKey
    \/ PlayerExit
    \/ MoveSash

Spec == Init /\ [][Next]_vars

\* ------------------------------------------------- one IPC call on its own
InitIPC ==
    /\ GuiInit
    /\ SideIdle
    /\ ipc_conn \in ConnOutcomes
    /\ ipc_reply \in Replies
    /\ ipc_result = [py |-> "none", d |-> EmptyMap]
    /\ ipc_value = [raised |-> FALSE, value |-> None]

\* ctrl.get_property(prop): one send_command call and the .get on its result
IpcCall ==
    /\ ipc_result.py = "none"
    /\ ipc_result' = send_command(ipc_conn, ipc_reply)
    /\ ipc_value' = get_property(ipc_conn, ipc_reply)
    /\ UNCHANGED <<guivars, sidevars, ipc_conn, ipc_reply>>

\* the next call: a fresh connection with its own outcome and reply
IpcAgain ==
    /\ ipc_result.py # "none"
    /\ ipc_conn' \in ConnOutcomes
    /\ ipc_reply' \in Replies
    /\ ipc_result' = [py |-> "none", d |-> EmptyMap]
    /\ ipc_value' = [raised |-> FALSE, value |-> None]
    /\ UNCHANGED <<guivars, sidevars>>

NextIPC ==
    \/ IpcCall
    \/ IpcAgain

SpecIPC == InitIPC /\ [][NextIPC]_vars

\* the handlers when every IPC call, every grid_info() and every toolkit
\* call succeeds and no player is touched from outside
QuietF11 == F11In({Quiet})
QuietEscape == EscapeIn({Quiet})
QuietFullscreenButton == FullscreenButtonIn({Quiet})
QuietTileToggle == TileToggleIn({Quiet})
QuietExitTileButton == ExitTileButtonIn({Quiet})
QuietResetButton == ResetButtonIn({Quiet})
QuietPauseAll == PauseAllIn({Quiet})
QuietMuteAll == MuteAllIn({Quiet})
QuietStartGrid == StartGridIn(WallRows, WallCols, FALSE)

NextQuiet ==
    \/ QuietF11
    \/ QuietEscape
    \/ QuietFullscreenButton
    \/ QuietTileToggle
    \/ QuietExitTileButton
    \/ QuietResetButton
    \/ QuietPauseAll
    \/ QuietMuteAll
    \/ QuietStartGrid
    \/ StopAll

SpecQuiet == Init /\ [][NextQuiet]_vars
\* ------------------------------------------------------------ bus specification
\* the content of /tmp changes: the last call's record is dropped
Forget == bus_call' = NoCall /\ bus_out' = NoOut

\* a wall process starts and spawns n cells: _spawn_cell unlinks each path
\* and the player binds it
WallStarts ==
    \E pid \in Pids, t \in StartTimes, n \in 1 .. MaxCells :
        /\ Cardinality(bus_walls) < MaxWalls
        /\ WallOfPid(pid) = {}
        /\ bus_walls' = bus_walls \cup {grid_id(pid, t)}
        /\ bus_sockets' =
              [p \in DOMAIN bus_sockets \cup
                     {socket_path(grid_id(pid, t), rc) : rc \in RowCells(n)} |->
                  IF \E rc \in RowCells(n) : p = socket_path(grid_id(pid, t), rc)
                  THEN "live" ELSE bus_sockets[p]]
        /\ Forget
        /\ UNCHANGED notbus

\* a player exits and leaves its socket file behind ("stale": connect is
\* refused), or hangs with its accept queue full ("deaf": connect fails)
PlayerGoes ==
    \E p \in DOMAIN bus_sockets, kind \in SocketKinds \ {"live"} :
        /\ bus_sockets[p] = "live"
        /\ bus_sockets' = [bus_sockets EXCEPT ![p] = kind]
        /\ Forget
        /\ UNCHANGED <<notbus, bus_walls>>

\* a wall process ends; its players are gone, their socket files stay
WallEnds ==
    \E w \in bus_walls :
        /\ bus_walls' = bus_walls \ {w}
        /\ bus_sockets' = [p \in DOMAIN bus_sockets |->
                              IF p \in WallPaths(w) THEN "stale" ELSE bus_sockets[p]]
        /\ Forget
        /\ UNCHANGED notbus

Call(action, glob, from, wall) ==
    /\ bus_call' = [action |-> action, glob |-> glob, from |-> from, wall |-> wall]
    /\ bus_out' = broadcast(action, glob, bus_sockets)
    /\ UNCHANGED <<notbus, bus_sockets, bus_walls>>

\* broadcast(action, sock_glob) called by an invoker with any action text
\* and a pattern or the default (main passes on only the two exact names
\* its argument parser accepts)
BroadcastCli ==
    \E action \in ActionTexts, glob \in {DefaultGlob} \cup {socket_glob(g) : g \in GridIds} :
        Call(action, glob, "cli", <<>>)

\* N or S pressed in a cell's player: run "mpv-grid-broadcast" under the
\* environment _spawn_cell gave the player
BroadcastFromCell ==
    \E w \in bus_walls, action \in KeyActions :
        /\ \E p \in WallPaths(w) \cap DOMAIN bus_sockets : bus_sockets[p] = "live"
        /\ Call(action, socket_glob(w), "cell", w)

\* N or S pressed in the player _popout_fullscreen_selected launched: its
\* environment is os.environ with PATH extended, so the helper falls back
\* to the default pattern
BroadcastFromPopout ==
    \E w \in bus_walls, action \in KeyActions :
        /\ \E p \in WallPaths(w) \cap DOMAIN bus_sockets : bus_sockets[p] = "live"
        /\ Call(action, DefaultGlob, "popout", w)

NextBus ==
    \/ WallStarts
    \/ PlayerGoes
    \/ WallEnds
    \/ BroadcastCli
    \/ BroadcastFromCell
    \/ BroadcastFromPopout

SpecBus == Init /\ [][NextBus]_vars
\* ------------------------------------------------------------ lifecycle specification
\* what the processes' coming and going leaves alone
notlife == <<ipcvars, bus_walls, bus_call, bus_out, renamevars, loopvars, syncvars,
             swapvars>>

\* _start_grid with its processes, playlists, playlist files and sockets
LifeStart ==
    \E rows \in 1 .. MaxRows, cols \in 1 .. MaxCols :
    \E fail_at \in FailPoints(rows, cols, TRUE) :
    \E lists \in [Spawned(rows, cols, fail_at) -> TwoShuffles(all_files)] :
        /\ Len(processes) + fail_at <= MaxProcs
        /\ StartGridAt(rows, cols, fail_at)
        /\ processes' = processes \o NewProcesses(rows, cols, fail_at)
        /\ playlists' = lists
        /\ tmpdir' = tmpdir \cup Attempts(rows, cols, fail_at)
        /\ bus_sockets' = SocketsAfterSpawn(bus_sockets, rows, cols, fail_at)
        /\ start_log' = StartOutcome(rows, cols, fail_at)
        /\ stop_log' = NoStop
        /\ UNCHANGED <<notlife, after_queue>>

\* the last process of the list that was spawned for the cell of process i
Latest(i) ==
    \A j \in i + 1 .. Len(processes) : processes[j].cell # processes[i].cell

\* /tmp after the players of cells have gone: a player that exits or is
\* killed leaves its socket file behind, with nothing listening
Unbound(sockets, cells) ==
    [p \in DOMAIN sockets |->
        IF \E rc \in cells : p = socket_path(ThisWall, rc) THEN "stale" ELSE sockets[p]]

\* the cells whose player the termination loop has ended
Ended(procs, results) ==
    {procs[i].cell : i \in {j \in 1 .. Len(procs) : Latest(j) /\ results[j] # "running"}}

\* a player process exits
LifeExit ==
    \E i \in 1 .. Len(processes) :
        /\ processes[i].alive
        /\ processes' = [processes EXCEPT ![i].alive = FALSE]
        /\ players' = IF Latest(i) /\ processes[i].cell \in controllers
                      THEN [players EXCEPT ![processes[i].cell] = DeadPlayer]
                      ELSE players
        /\ bus_sockets' = IF Latest(i) THEN Unbound(bus_sockets, {processes[i].cell})
                          ELSE bus_sockets
        /\ raised' = FALSE
        /\ recovered' = "no"
        /\ tile_pre' = NoTile
        /\ UNCHANGED <<fsvars, appvars, tkvars, env_used, playlists, stop_log, notlife,
                       spawnvars>>

\* _monitor_loop: "while self.processes", no process alive
LifeAllTilesClosed ==
    /\ processes # <<>>
    /\ \A i \in 1 .. Len(processes) : ~processes[i].alive
    /\ AllTilesClosed

\* _stop_all whose termination loop came out as out
StopAllWith(tempers, out) ==
    /\ stop_log' = [calls |-> stop_log.calls + 1, exc |-> out.exc, was |-> mode,
                    procs |-> processes, tempers |-> tempers, results |-> out.results]
    /\ IF out.exc = "raised"
       THEN UNCHANGED <<guivars, processes, playlists, bus_sockets>>
       ELSE /\ StopAllOnWindow
            /\ processes' = <<>>
            /\ playlists' = EmptyMap
            /\ bus_sockets' = Unbound(bus_sockets, Ended(processes, out.results))
    /\ UNCHANGED <<notlife, spawnvars>>

\* _stop_all, called by the Stop button, by _on_close or once more by its
\* caller
LifeStop ==
    \E tempers \in [1 .. Len(processes) -> Tempers] :
        /\ stop_log.calls < MaxStops
        /\ StopAllWith(tempers, TerminateAll(processes, tempers,
                                            [exc |-> "none", results |-> <<>>]))

NextLife ==
    \/ LifeStart
    \/ LifeExit
    \/ LifeAllTilesClosed
    \/ LifeStop
    \/ QuietF11
    \/ QuietTileToggle

SpecLife == Init /\ [][NextLife]_vars

\* ------------------------------------------------------------ monitor specification
\* _monitor_loop, one pass of its thread: no tracked process is alive, so
\* the callbacks are handed to the event loop and the thread ends
MonitorPolls ==
    /\ monitor_on
    /\ processes # <<>>
    /\ alive(processes) = 0
    /\ after_queue < MaxQueued
    /\ after_queue' = root_after(after_queue, start_enabled, stop_enabled).queue
    /\ start_enabled' = root_after(after_queue, start_enabled, stop_enabled).start
    /\ stop_enabled' = root_after(after_queue, start_enabled, stop_enabled).stop
    /\ monitor_on' = FALSE
    /\ UNCHANGED <<fsvars, cell_frames, controllers, monitor_items, current_rows,
                   current_cols, tkvars, players, env_used,
                   histvars, bus_sockets, lifevars, tmpdir, start_log, notlife>>

\* the event loop runs the callbacks of root.after(0, ...): Start is
\* enabled and Stop disabled
RunCallbacks ==
    /\ after_queue > 0
    /\ after_queue' = after_queue - 1
    /\ start_enabled' = TRUE
    /\ stop_enabled' = FALSE
    /\ UNCHANGED <<fsvars, cell_frames, controllers, monitor_items, current_rows,
                   current_cols, monitor_on, tkvars, players, env_used, histvars,
                   bus_sockets, lifevars, tmpdir, start_log, notlife>>

NextMonitor ==
    \/ LifeStart
    \/ LifeExit
    \/ LifeStop
    \/ MonitorPolls
    \/ RunCallbacks

\* the monitor thread and the event loop both get their turn
SpecMonitor ==
    Init /\ [][NextMonitor]_vars /\ WF_vars(MonitorPolls) /\ WF_vars(RunCallbacks)

\* ------------------------------------------------------------ rename specification
\* what the rename leaves alone
notrename == <<fsvars, appvars, tkvars, players, histvars, ipcvars, busvars, processes,
               stop_log, loopvars, spawnvars, syncvars, swapvars>>

\* an event in a player: the record of the last rename is dropped
Forgotten == [NoRename EXCEPT !.calls = rename_log.calls]

NoSwapPending == \A c \in DOMAIN media : media[c].swap = <<>>

\* _start_grid, every launch working, with the players it starts
RenameStart ==
    \E rows \in 1 .. MaxRows, cols \in 1 .. MaxCols, positional \in BOOLEAN :
    \E lists \in [GridCells(rows, cols) -> TwoShuffles(all_files)] :
        /\ StartGridAt(rows, cols, rows * cols)
        /\ processes' = processes \o NewProcesses(rows, cols, rows * cols)
        /\ playlists' = lists
        /\ media' = [c \in GridCells(rows, cols) |-> StartedPlayer(lists[c], positional)]
        /\ rename_log' = NoRename
        /\ UNCHANGED <<ipcvars, busvars, stop_log, disk, loopvars, spawnvars, syncvars,
                       swapvars>>

\* grid-sync-shuffle, or Shuffle All: playlist-shuffle in one player; the
\* in-memory playlist is not told
PlayerShuffle ==
    \E c \in DOMAIN media : \E list \in Shuffles(media[c].playlist) :
        /\ env_used < MaxEnv
        /\ NoSwapPending
        /\ list # media[c].playlist
        /\ media' = [media EXCEPT ![c] = Relisted(@, list)]
        /\ env_used' = env_used + 1
        /\ rename_log' = Forgotten
        /\ UNCHANGED <<notrename, playlists, disk>>

\* grid-sync-next, Next All, or the end of a file: playlist-next
PlayerNext ==
    \E c \in DOMAIN media :
        /\ env_used < MaxEnv
        /\ NoSwapPending
        /\ playlist_next(media[c]) # media[c]
        /\ media' = [media EXCEPT ![c] = playlist_next(@)]
        /\ env_used' = env_used + 1
        /\ rename_log' = Forgotten
        /\ UNCHANGED <<notrename, playlists, disk>>

\* the positions playback is looked at
PlayTimes == {Duration - 1}

\* playback, or a seek by the user, brings a player to second t
PlayTo ==
    \E c \in DOMAIN media, t \in PlayTimes :
        /\ env_used < MaxEnv
        /\ NoSwapPending
        /\ PathOf(media[c]) # NoPath
        /\ t # media[c].time_pos
        /\ media' = [media EXCEPT ![c].time_pos = t]
        /\ env_used' = env_used + 1
        /\ rename_log' = Forgotten
        /\ UNCHANGED <<notrename, playlists, disk>>

\* skipper.lua's timer fires in a player, 0.15 s after file-loaded
SkipOnce ==
    \E c \in DOMAIN media :
        /\ media[c].armed
        /\ media' = [media EXCEPT ![c] = skip_once(@)]
        /\ UNCHANGED <<notrename, env_used, playlists, disk, rename_log>>

\* the cells for which the loop takes "idx == cur_i"
CurrentCells(old_path) ==
    {c \in DOMAIN playlists \cap DOMAIN media :
        Holds(playlists[c], old_path) /\ IndexOf(playlists[c], old_path) = media[c].pos}

\* _rename_selected_current with its outcome known
RenameAs(cell, new_name, old_path, new_path, outcome) ==
    /\ rename_log' = [calls |-> rename_log.calls + 1, outcome |-> outcome, cell |-> cell,
                      text |-> new_name, old |-> old_path, new |-> new_path, lists |-> playlists,
                      swapped |-> [c \in CurrentCells(old_path) |-> media[c].time_pos]]
    /\ IF outcome = "renamed"
       THEN /\ disk' = (disk \ {old_path}) \cup {new_path}
            /\ playlists' = [c \in DOMAIN playlists |->
                                Renamed(playlists[c], old_path, new_path)]
            /\ media' = [c \in DOMAIN media |->
                            IF c \in DOMAIN playlists
                            THEN UpdatePlayer(media[c], playlists[c], old_path, new_path)
                            ELSE media[c]]
       ELSE UNCHANGED <<disk, playlists, media>>
    /\ UNCHANGED <<notrename, env_used>>

\* the Rename button, with a row of the monitor selected and a text given
\* to the dialog
RenameCall ==
    \E cell \in monitor_items, new_name \in NewNames :
        /\ rename_log.calls < MaxRenames
        /\ NoSwapPending
        /\ cell \in DOMAIN media
        /\ RenameAs(cell, new_name, PathOf(media[cell]),
                    target_name(new_name, PathOf(media[cell])),
                    Outcome(PathOf(media[cell]), new_name, disk))

\* _replace_current_entry leaves its polling loop: the player reports the
\* new path
RenameFinish ==
    \E c \in DOMAIN media :
        /\ media[c].swap # <<>>
        /\ media' = [media EXCEPT ![c] = FinishSwap(@)]
        /\ UNCHANGED <<notrename, env_used, playlists, disk, rename_log>>

NextRename ==
    \/ RenameStart
    \/ PlayerShuffle
    \/ PlayerNext
    \/ PlayTo
    \/ SkipOnce
    \/ RenameCall
    \/ RenameFinish

SpecRename == Init /\ [][NextRename]_vars

\* ------------------------------------------------------------ loop specification
notloop == <<guivars, ipcvars, busvars, lifevars, renamevars, spawnvars, syncvars,
             swapvars>>

\* the players of a wall start and load their first file
LoopStart ==
    \E n \in 1 .. MaxCells :
        /\ lua = EmptyMap
        /\ lua' = [c \in RowCells(n) |-> on_file_loaded(FreshLua, 0)]
        /\ loop_log' = NoToggle
        /\ UNCHANGED notloop

\* playlist-next, playlist-prev or playlist-play-index (a key, Next All,
\* Prev All, the rename): another entry is loaded
FileLoads ==
    \E c \in DOMAIN lua, pos \in 0 .. MaxFiles - 1 :
        /\ pos # lua[c].pos
        /\ lua' = [lua EXCEPT ![c] = on_file_loaded(@, pos)]
        /\ loop_log' = [loop_log EXCEPT !.cell = NoCell]
        /\ UNCHANGED notloop

\* the middle mouse button in a player, or toggle_custom_loop from the window
ToggleLoop ==
    \E c \in DOMAIN lua :
        /\ loop_log.toggles < MaxToggles
        /\ lua' = [lua EXCEPT ![c] = toggle_loop_file(@)]
        /\ loop_log' = [toggles |-> loop_log.toggles + 1, cell |-> c,
                        before |-> lua[c].loop_file,
                        after |-> toggle_loop_file(lua[c]).loop_file]
        /\ UNCHANGED notloop

NextLoop ==
    \/ LoopStart
    \/ FileLoads
    \/ ToggleLoop

SpecLoop == Init /\ [][NextLoop]_vars

\* ------------------------------------------------------------ grid-sync specification
\* what a script message leaves alone
notsync == <<guivars, ipcvars, busvars, lifevars, disk, rename_log, loop_log, spawnvars,
             swapvars>>

\* the players of a wall start on their playlists and load the first file
SyncStart ==
    \E n \in 1 .. MaxCells : \E lists \in [RowCells(n) -> TwoShuffles(all_files)] :
        /\ media = EmptyMap
        /\ media' = [c \in RowCells(n) |-> StartedPlayer(lists[c], TRUE)]
        /\ lua' = [c \in RowCells(n) |-> on_file_loaded(FreshLua, 0)]
        /\ sync_log' = NoSync
        /\ UNCHANGED notsync

\* toggle-custom-loop in one player
SyncToggleLoop ==
    \E c \in DOMAIN lua :
        /\ lua' = [lua EXCEPT ![c] = toggle_loop_file(@)]
        /\ sync_log' = NoSync
        /\ UNCHANGED <<notsync, media>>

\* the scripts of player c after a command that left it as m: a file that
\* was started raises file-loaded
AfterCommand(c, m) ==
    IF m.pos # media[c].pos /\ m.pos # -1 THEN on_file_loaded(lua[c], m.pos) ELSE lua[c]

\* what the script did with a message
Handled(c, msg, out) ==
    /\ media' = [media EXCEPT ![c] = out.m]
    /\ lua' = [lua EXCEPT ![c] = AfterCommand(c, out.m)]
    /\ sync_log' = [msg |-> msg, cell |-> c, loop |-> lua[c].loop_file,
                    before |-> media[c], cmds |-> out.cmds]
    /\ UNCHANGED notsync

\* script-message grid-sync-next reaches player c
GridSyncNext ==
    \E c \in DOMAIN media :
        Handled(c, "grid-sync-next", handle_grid_sync_next(media[c], lua[c].loop_file))

\* script-message grid-sync-shuffle reaches player c; of the orders
\* playlist-shuffle can come up with, the list as it is and its reverse
GridSyncShuffle ==
    \E c \in DOMAIN media : \E list \in TwoShuffles(media[c].playlist) :
        Handled(c, "grid-sync-shuffle", handle_grid_sync_shuffle(media[c], list))

NextSync ==
    \/ SyncStart
    \/ SyncToggleLoop
    \/ GridSyncNext
    \/ GridSyncShuffle

SpecSync == Init /\ [][NextSync]_vars

\* ------------------------------------------------------------ hot-swap specification
notswap == <<guivars, ipcvars, busvars, lifevars, renamevars, loopvars, spawnvars, syncvars>>

\* _rename_selected_current calls _replace_current_entry for a player whose
\* current entry is the renamed file
SwapCalled ==
    \E m \in SwapPlayers :
        /\ swap_call.pc = "idle"
        /\ swap_call' = Captured(NoSwapCall, m, m.pos)
        /\ UNCHANGED notswap

SwapLoads ==
    /\ swap_call.pc = "load"
    /\ swap_call' = LoadSent(swap_call)
    /\ UNCHANGED notswap

SwapPlays ==
    /\ swap_call.pc = "play"
    /\ swap_call' = PlaySent(swap_call)
    /\ UNCHANGED notswap

\* the player has opened the file it was told to play
PlayerOpens ==
    /\ swap_call.loading
    /\ swap_call' = [swap_call EXCEPT !.loading = FALSE]
    /\ UNCHANGED notswap

\* "while time.time() < deadline": one more round
SwapPolls ==
    /\ swap_call.pc = "poll"
    /\ swap_call.polls < MaxPolls
    /\ swap_call' = Polled(swap_call)
    /\ UNCHANGED notswap

\* the deadline has passed: the loop ends without a break
SwapDeadline ==
    /\ swap_call.pc = "poll"
    /\ swap_call.polls = MaxPolls
    /\ swap_call' = [swap_call EXCEPT !.pc = "pause"]
    /\ UNCHANGED notswap

SwapPauses ==
    /\ swap_call.pc = "pause"
    /\ swap_call' = PauseSent(swap_call)
    /\ UNCHANGED notswap

SwapSeeks ==
    /\ swap_call.pc = "seek"
    /\ swap_call' = SeekSent(swap_call)
    /\ UNCHANGED notswap

SwapRestores ==
    /\ swap_call.pc = "restore"
    /\ swap_call' = RestoreSent(swap_call)
    /\ UNCHANGED notswap

SwapRemoves ==
    /\ swap_call.pc = "remove"
    /\ swap_call' = RemoveSent(swap_call)
    /\ UNCHANGED notswap

\* the call has returned and the player is at rest
SwapReturns ==
    /\ swap_call.pc = "done"
    /\ ~swap_call.loading
    /\ swap_call' = NoSwapCall
    /\ UNCHANGED notswap

NextSwap ==
    \/ SwapCalled
    \/ SwapLoads
    \/ SwapPlays
    \/ PlayerOpens
    \/ SwapPolls
    \/ SwapDeadline
    \/ SwapPauses
    \/ SwapSeeks
    \/ SwapRestores
    \/ SwapRemoves
    \/ SwapReturns

SpecSwap == Init /\ [][NextSwap]_vars

\* ------------------------------------------------------------ claims
SameFlags(rc) ==
    /\ players[rc].pause = tile_pre.flags[rc].pause
    /\ players[rc].mute = tile_pre.flags[rc].mute

SavedMapsEmpty ==
    /\ DOMAIN saved_grid_info = {}
    /\ DOMAIN saved_pause_states = {}
    /\ DOMAIN saved_mute_states = {}

\* a Tile entry and the exit right after it, both completed with every IPC
\* call answered
EnteredThenExited ==
    /\ tile_pre.state = "exited"
    /\ tile_pre.ipc_ok
    /\ ~raised
    /\ recovered = "no"

\* C1: in a wall of two or more cells, after a Tile entry followed directly
\* by its exit (every IPC call answered), each non-target cell has the
\* pause and mute flags it had just before the entry.
C1_OthersRestored ==
    (EnteredThenExited /\ Cardinality(controllers) >= 2) =>
        \A rc \in controllers \ {tile_pre.cell} : SameFlags(rc)

\* two non-target cells that entered with different, mixed flags are back
\* at them after the exit
C1_Witness ==
    /\ EnteredThenExited
    /\ \E a, b \in controllers \ {tile_pre.cell} :
          /\ tile_pre.flags[a] = [pause |-> TRUE, mute |-> FALSE]
          /\ tile_pre.flags[b] = [pause |-> FALSE, mute |-> TRUE]
          /\ SameFlags(a)
          /\ SameFlags(b)

\* a Tile entry that completed with every IPC call answered
JustEntered ==
    /\ tile_pre.state = "entered"
    /\ tile_pre.ipc_ok
    /\ ~raised
    /\ recovered = "no"

\* C2: right after a completed Tile entry (every IPC call answered) the
\* target is unmuted with its pause flag untouched, and every other
\* registered cell is paused and muted.
C2_EntryFlags ==
    JustEntered =>
        \A rc \in controllers :
            IF rc = tile_pre.cell
            THEN /\ ~players[rc].mute
                 /\ players[rc].pause = tile_pre.flags[rc].pause
            ELSE /\ players[rc].pause
                 /\ players[rc].mute

\* the target entered muted and paused, another cell entered playing aloud
C2_Witness ==
    /\ JustEntered
    /\ tile_pre.cell \in controllers
    /\ tile_pre.flags[tile_pre.cell] = [pause |-> TRUE, mute |-> TRUE]
    /\ ~players[tile_pre.cell].mute
    /\ \E rc \in controllers \ {tile_pre.cell} :
          /\ tile_pre.flags[rc] = [pause |-> FALSE, mute |-> FALSE]
          /\ players[rc].pause
          /\ players[rc].mute
\* exit through _exit_tile_fullscreen: the tile toggle or the Exit Tile button
ExitedByTileHandler ==
    /\ tile_pre.state = "exited"
    /\ tile_pre.via \in {"toggle_tile", "exit_tile"}
    /\ ~raised
    /\ recovered = "no"

\* C3: a Tile entered in Global and then left through the tile toggle or
\* the Exit Tile button ends in mode Global with the side panel still
\* hidden and the window still full-window.
C3_BackToGlobal ==
    (ExitedByTileHandler /\ tile_pre.from = "GLOBAL") =>
        /\ mode = "GLOBAL"
        /\ ~side_shown
        /\ window_fullscreen

\* C4: a Tile entered in Normal and then left through the tile toggle or
\* the Exit Tile button ends in mode Normal with the forced Global unwound:
\* tile_forced_global false, side panel visible, window not full-window.
C4_BackToNormal ==
    (ExitedByTileHandler /\ tile_pre.from = "NORMAL") =>
        /\ mode = "NORMAL"
        /\ ~tile_forced_global
        /\ side_visible
        /\ side_shown
        /\ ~window_fullscreen

\* the 2x2 wall with Tile entered on (0,1) and exited again
Wall2x2 == GridCells(2, 2)

Scenario2x2 ==
    /\ EnteredThenExited
    /\ controllers = Wall2x2
    /\ DOMAIN cell_frames = Wall2x2
    /\ tile_pre.cell = <<0, 1>>

\* C5 as stated: after the exit all four cells, the target included, have
\* the pause and mute flags they had at entry.
C5_AllFourRestored ==
    Scenario2x2 => \A rc \in controllers : SameFlags(rc)

\* C5 amended: the three other cells have the flags they had at entry; the
\* target has the pause flag it had at entry and is unmuted.
C5_OthersRestoredTargetUnmuted ==
    Scenario2x2 =>
        \A rc \in controllers :
            IF rc = tile_pre.cell
            THEN /\ players[rc].pause = tile_pre.flags[rc].pause
                 /\ ~players[rc].mute
            ELSE SameFlags(rc)

\* the target entered muted and comes out unmuted; a neighbour entered
\* playing aloud and is playing aloud again
C5_Witness ==
    /\ Scenario2x2
    /\ tile_pre.flags[<<0, 1>>].mute
    /\ ~players[<<0, 1>>].mute
    /\ tile_pre.flags[<<1, 0>>] = [pause |-> FALSE, mute |-> FALSE]
    /\ SameFlags(<<1, 0>>)

\* C6: after the Reset button's _emergency_reset, whatever the state and
\* the saved maps were: no exception, mode Normal, no active tile,
\* tile_forced_global false, the three saved maps empty, the side panel
\* visible and the window not full-window.
C6_RecoveryResult ==
    recovered = "button" =>
        /\ ~raised
        /\ mode = "NORMAL"
        /\ active_tile = NoCell
        /\ ~tile_forced_global
        /\ SavedMapsEmpty
        /\ side_visible
        /\ side_shown
        /\ ~window_fullscreen

\* C7: a handler in which a fullscreen transition raised has routed the
\* exception to _emergency_reset and ends in mode Normal with the saved
\* maps empty.
C7_FaultsRecovered ==
    (raised \/ recovered = "except") =>
        /\ recovered = "except"
        /\ mode = "NORMAL"
        /\ SavedMapsEmpty

\* C8: between handlers a non-empty saved map implies mode Tile; the maps
\* are empty after every completed exit from Tile and whenever mode is
\* Normal.
C8_SavedOnlyInTile ==
    /\ ~SavedMapsEmpty => mode = "TILE"
    /\ (tile_pre.state = "exited" /\ ~raised) => SavedMapsEmpty
    /\ mode = "NORMAL" => SavedMapsEmpty

\* a completed exit from a Tile over two players, which held all three
\* maps, came back to Normal with everything cleared
C8_Witness ==
    /\ tile_pre.state = "exited"
    /\ ~raised
    /\ mode = "NORMAL"
    /\ SavedMapsEmpty
    /\ Cardinality(DOMAIN tile_pre.flags) >= 2

\* C9 as stated: in mode Tile each saved map has exactly the registry's keys.
C9_KeysEqualRegistry ==
    mode = "TILE" =>
        /\ DOMAIN saved_grid_info = controllers
        /\ DOMAIN saved_pause_states = controllers
        /\ DOMAIN saved_mute_states = controllers

\* C9 amended: in mode Tile with an active tile the saved layout has the
\* cell frames' keys and the saved pause and mute flags have the
\* controllers' keys without the active tile; in mode Tile without an
\* active tile the three maps are empty.
C9_KeysWithoutTarget ==
    mode = "TILE" =>
        IF active_tile # NoCell
        THEN /\ DOMAIN saved_grid_info = DOMAIN cell_frames
             /\ DOMAIN saved_pause_states = controllers \ {active_tile}
             /\ DOMAIN saved_mute_states = controllers \ {active_tile}
        ELSE SavedMapsEmpty

\* a Tile over a two-cell wall: one flag pair saved, the target's not
C9_Witness ==
    /\ mode = "TILE"
    /\ active_tile \in controllers
    /\ Cardinality(controllers) = 2
    /\ DOMAIN saved_pause_states = controllers \ {active_tile}
    /\ DOMAIN saved_grid_info = controllers

\* one completed send_command / get_property call
IpcDone == ipc_result.py # "none"

\* the failures of the connection and of the protocol
IpcFailure == ipc_conn # "connected" \/ ipc_reply \in MalformedReplies

\* C10: send_command never raises; on a failure of the connection or the
\* protocol its result is a dict whose error field holds a description,
\* and get_property yields None without raising.
C10_ErrorsReturned ==
    IpcDone =>
        /\ ipc_result.py # "raise"
        /\ IpcFailure =>
              /\ ipc_result.py = "dict"
              /\ "error" \in DOMAIN ipc_result.d
              /\ ipc_result.d["error"] \notin {"success", ""}
              /\ ~ipc_value.raised
              /\ ipc_value.value = None

\* a reply cut off in the middle came back as an error result
C10_Witness ==
    /\ IpcDone
    /\ ipc_conn = "connected"
    /\ ipc_reply = ReplyTruncated
    /\ ipc_result = [py |-> "dict", d |-> [error |-> "Expecting value"]]
    /\ ipc_value.value = None
\* the paths the last call's pattern matches, and the live ones among them
Matched == {p \in DOMAIN bus_sockets : Matches(bus_call.glob, p)}
MatchedLive == {p \in Matched : bus_sockets[p] = "live"}

\* C11: broadcast with action next or shuffle over a pattern that matches M
\* live sockets and any number of stale or unreachable paths returns M and
\* does not raise; every matched path is tried, each live one is sent the
\* command exactly once, and a path that fails does not stop the later ones
C11_CountsLiveSockets ==
    (bus_call.from # "none" /\ bus_call.action \in KeyActions) =>
        /\ bus_out.exit = "returned"
        /\ bus_out.count = Cardinality(MatchedLive)
        /\ DOMAIN bus_out.sent = Matched
        /\ \A p \in Matched : bus_out.sent[p] = (IF p \in MatchedLive THEN 1 ELSE 0)
        /\ bus_out.cmd = Command(bus_call.action)

\* a call that met a dead path before a live one in sorted order
C11_Witness ==
    /\ bus_call.from # "none"
    /\ bus_call.action \in KeyActions
    /\ bus_out.count >= 1
    /\ \E p \in Matched \ MatchedLive, q \in MatchedLive : StrLess(p, q)

\* C12 as stated: broadcast with an action text other than "next" and
\* "shuffle" ends in the fatal usage error and sends nothing
C12_OtherActionIsFatal ==
    (bus_call.from # "none" /\ bus_call.action \notin KeyActions) =>
        /\ bus_out.exit = "SystemExit"
        /\ DOMAIN bus_out.sent = {}

\* C12: broadcast with an action text that, with surrounding whitespace
\* removed and in lower case, is neither "next" nor "shuffle" ends in the
\* fatal usage error (no count is returned) and sends nothing
C12_UnrecognizedIsFatal ==
    (bus_call.from # "none" /\ StripLower(bus_call.action) \notin KeyActions) =>
        /\ bus_out.exit = "SystemExit"
        /\ DOMAIN bus_out.sent = {}
        /\ bus_out.cmd = <<>>

\* an unrecognized action while a live socket matches the pattern
C12_Witness ==
    /\ bus_call.from # "none"
    /\ StripLower(bus_call.action) \notin KeyActions
    /\ MatchedLive # {}
    /\ bus_out.exit = "SystemExit"

\* C19: a broadcast made from inside a player that wall A launched (a cell's
\* player or the pop-out player, through the helper and the environment the
\* wall gave it) reaches only sockets whose path carries A's grid id, and
\* the socket paths of two different walls never coincide
C19_OnlyOwnWall ==
    /\ bus_call.from \in {"cell", "popout"} =>
          \A p \in DOMAIN bus_out.sent :
              bus_out.sent[p] >= 1 => Matches(socket_glob(bus_call.wall), p)
    /\ \A a \in GridIds, b \in GridIds :
          a # b => WallPaths(a) \cap WallPaths(b) = {}

\* C13: while the wall of a successful _start_grid runs (its monitor thread
\* is on), the registry has exactly one controller and one cell frame per
\* coordinate of the rows x cols grid, and the cells' socket paths differ
C13_RegistryMatchesGrid ==
    monitor_on =>
        /\ controllers = GridCells(current_rows, current_cols)
        /\ DOMAIN cell_frames = GridCells(current_rows, current_cols)
        /\ Cardinality(controllers) = current_rows * current_cols
        /\ \A g \in GridIds : \A a \in controllers, b \in controllers :
              a # b => socket_path(g, a) # socket_path(g, b)

\* what the termination loop owes process i of the list the call found
Attempted(log, i) ==
    IF ~log.procs[i].alive THEN log.results[i] = "exited"
    ELSE CASE log.tempers[i] = "obeys" -> log.results[i] = "terminated"
           [] log.tempers[i] = "kill_raises" -> log.results[i] = "running"
           [] OTHER -> log.results[i] = "killed"

\* C14: every call of _stop_all, in whatever mode, with processes that have
\* exited, that refuse to end or on which terminate()/kill() raise, and
\* also when it is called again after a stop, returns without raising,
\* has worked through every process of the list (a failure falls back to
\* kill and the loop goes on), and leaves the process list, controllers,
\* playlists and cell frames empty and mode = Normal
C14_StopIsBestEffort ==
    [][stop_log'.calls > stop_log.calls =>
          /\ stop_log'.exc = "none"
          /\ Len(stop_log'.results) = Len(processes)
          /\ \A i \in 1 .. Len(processes) : Attempted(stop_log', i)
          /\ processes' = <<>>
          /\ controllers' = {}
          /\ playlists' = EmptyMap
          /\ cell_frames' = EmptyMap
          /\ mode' = "NORMAL"]_vars

\* a stop out of Tile that met a process it had to kill before one that
\* obeyed, and one that had exited
C14_Witness ==
    /\ stop_log.calls >= 1
    /\ stop_log.was = "TILE"
    /\ \E i \in 1 .. Len(stop_log.procs), j \in 1 .. Len(stop_log.procs) :
          /\ i < j
          /\ stop_log.results[i] = "killed"
          /\ stop_log.results[j] = "terminated"
    /\ \E k \in 1 .. Len(stop_log.procs) : stop_log.results[k] = "exited"
    /\ processes = <<>>
    /\ mode = "NORMAL"

\* a step that is a call of _rename_selected_current
RenameStep == rename_log'.calls > rename_log.calls

\* the cells whose in-memory playlist held the renamed file
Holders == {c \in DOMAIN rename_log.lists : Holds(rename_log.lists[c], rename_log.old)}

\* C15: a rename that succeeds puts the new path where the old path was in
\* every in-memory playlist that held it and changes no other entry and no
\* other playlist
C15_ReplacedInPlace ==
    [][(RenameStep /\ rename_log'.outcome = "renamed") =>
          /\ DOMAIN playlists' = DOMAIN playlists
          /\ \A c \in DOMAIN playlists :
                /\ Len(playlists'[c]) = Len(playlists[c])
                /\ \A k \in 1 .. Len(playlists[c]) :
                      playlists'[c][k] = IF playlists[c][k] = rename_log'.old
                                        THEN rename_log'.new ELSE playlists[c][k]]_vars

\* a rename of a file that two playlists held at different indices, neither
\* the last
C15_Witness ==
    /\ rename_log.outcome = "renamed"
    /\ \E a \in Holders, b \in Holders :
          /\ IndexOf(rename_log.lists[a], rename_log.old)
                < IndexOf(rename_log.lists[b], rename_log.old)
          /\ playlists[a][IndexOf(rename_log.lists[a], rename_log.old) + 1] = rename_log.new
          /\ playlists[b][IndexOf(rename_log.lists[b], rename_log.old) + 1] = rename_log.new

\* C16: a rename of a local file to a name with a path separator, or to a
\* name whose target exists, ends in an error dialog, and the files on
\* disk, every in-memory playlist and every player stay as they were
C16_RejectedUntouched ==
    [][(/\ RenameStep
        /\ rename_log'.old \in disk
        /\ rename_log'.text # <<>>
        /\ \/ HasSeparator(rename_log'.text)
           \/ target_name(rename_log'.text, rename_log'.old) \in disk) =>
          /\ rename_log'.outcome \in {"invalid_name", "target_exists"}
          /\ rename_log'.outcome \in Errors
          /\ disk' = disk
          /\ playlists' = playlists
          /\ media' = media]_vars

\* a rename to the name of another file of two playlists
C16_Witness ==
    /\ rename_log.outcome = "target_exists"
    /\ rename_log.new \in disk
    /\ rename_log.old \in disk
    /\ Cardinality(Holders) = 2

\* C17: after a rename, in every cell whose in-memory playlist held the file
\* at an index other than the player's position, the player's playlist is
\* the in-memory playlist, entry for entry
C17_PlayerListFollows ==
    [][(RenameStep /\ rename_log'.outcome = "renamed") =>
          \A c \in DOMAIN playlists \cap DOMAIN media :
              (/\ Holds(playlists[c], rename_log'.old)
               /\ IndexOf(playlists[c], rename_log'.old) # media[c].pos) =>
                  media'[c].playlist = playlists'[c]]_vars

\* C18: once the swap in the selected cell is over and the timer the new
\* file armed has fired, the player plays the new path at the position
\* read before the swap (here: on a player with positional insert whose
\* position was the file's in-memory index)
C18_SwapKeepsPosition ==
    (/\ rename_log.outcome = "renamed"
     /\ rename_log.cell \in DOMAIN rename_log.swapped
     /\ media[rename_log.cell].positional
     /\ media[rename_log.cell].swap = <<>>
     /\ ~media[rename_log.cell].armed) =>
        /\ PathOf(media[rename_log.cell]) = rename_log.new
        /\ media[rename_log.cell].time_pos = rename_log.swapped[rename_log.cell]

\* C20: every toggle-custom-loop flips loop-forever: loop-file was not inf
\* before and is inf after, or was inf before and is not inf after
C20_ToggleFlips ==
    loop_log.cell # NoCell =>
        (loop_log.before = "inf") # (loop_log.after = "inf")

\* C21: a grid-sync-next message handled by a player whose loop-file is inf
\* gives the player no command and leaves its playlist and position as they
\* were; handled under any other loop-file it gives the one command
\* playlist-next force. A grid-sync-shuffle message gives the command
\* playlist-shuffle whatever loop-file is, and the player's playlist is a
\* reordering of the one it had.
C21_SyncMessages ==
    /\ sync_log.msg = "grid-sync-next" /\ sync_log.loop = "inf" =>
          /\ sync_log.cmds = <<>>
          /\ media[sync_log.cell].pos = sync_log.before.pos
          /\ media[sync_log.cell].playlist = sync_log.before.playlist
    /\ sync_log.msg = "grid-sync-next" /\ sync_log.loop # "inf" =>
          /\ sync_log.cmds = << <<"playlist-next", "force">> >>
          /\ media[sync_log.cell] = playlist_next_force(sync_log.before)
    /\ sync_log.msg = "grid-sync-shuffle" =>
          /\ sync_log.cmds = << <<"playlist-shuffle">> >>
          /\ media[sync_log.cell].playlist \in Shuffles(sync_log.before.playlist)

\* a looping player that is not at its last entry has handled grid-sync-next
C21_Witness ==
    /\ sync_log.msg = "grid-sync-next"
    /\ sync_log.loop = "inf"
    /\ sync_log.before.pos \in 0 .. Len(sync_log.before.playlist) - 2

\* C22: after a teardown (_stop_all that ran to its end) the playlist file
\* and the socket path of every cell it tore down are gone, and no socket
\* path of this wall is left for a broadcast pattern to match.
C22_TeardownRemovesFiles ==
    stop_log.calls > 0 /\ stop_log.exc = "none" =>
        /\ \A i \in 1 .. Len(stop_log.procs) :
              /\ stop_log.procs[i].cell \notin tmpdir
              /\ socket_path(ThisWall, stop_log.procs[i].cell) \notin DOMAIN bus_sockets
        /\ stop_log.procs # <<>> =>
              \A p \in DOMAIN bus_sockets : ~Matches(socket_glob(ThisWall), p)

AllExited == processes # <<>> /\ \A i \in 1 .. Len(processes) : ~processes[i].alive

\* C23: when every tracked player process has exited, the controls are
\* eventually those of a stopped wall: Start enabled and Stop disabled.
C23_EventuallyReset == AllExited ~> (start_enabled /\ ~stop_enabled)

\* every process of a wall that was started in full has exited, no stop
\* has run, and the callbacks of the monitor thread have reset the controls
C23_Witness ==
    /\ AllExited
    /\ ~start_log.error
    /\ stop_log = NoStop
    /\ after_queue = 0
    /\ ~monitor_on
    /\ start_enabled
    /\ ~stop_enabled

\* the cells spawned before the launch that raised
Siblings(log) ==
    {rc \in GridCells(log.rows, log.cols) : rc[1] * log.cols + rc[2] < log.fail_at}

\* C24: when the launch for cell k raises inside _start_grid, the error
\* dialog is shown, every cell spawned before k is in the registry with a
\* running process, a controller and a playlist, and Popen was called once
\* for k and not at all for the cells after it.
C24_FailedLaunchKeepsSiblings ==
    [][LifeStart /\ start_log'.fail_at < start_log'.rows * start_log'.cols =>
          /\ start_log'.error
          /\ start_log'.launches = start_log'.fail_at + 1
          /\ Len(processes') = Len(processes) + start_log'.fail_at
          /\ \A rc \in Siblings(start_log') :
                /\ rc \in controllers'
                /\ players'[rc].alive
                /\ rc \in DOMAIN playlists'
                /\ \E i \in Len(processes) + 1 .. Len(processes') :
                      processes'[i].cell = rc /\ processes'[i].alive
      ]_vars

\* the second launch of a 1x2 wall raised and the first cell is running
C24_Witness ==
    /\ start_log.error
    /\ start_log.fail_at = 1
    /\ stop_log = NoStop
    /\ <<0, 0>> \in controllers
    /\ players[<<0, 0>>].alive
    /\ <<0, 0>> \in DOMAIN playlists
    /\ processes # <<>>
    /\ processes[Len(processes)] = [cell |-> <<0, 0>>, alive |-> TRUE]

\* C25: a tile toggle in mode Tile leaves no tile active and no snapshot,
\* whatever row of the monitor is selected; and no step of any handler goes
\* from one active tile to another, or changes the layout, pause or mute
\* snapshot while the same tile stays active.
C25_NoTileToTile ==
    [][/\ mode = "TILE" /\ QuietTileToggle =>
             /\ active_tile' = NoCell
             /\ saved_grid_info' = EmptyMap
             /\ saved_pause_states' = EmptyMap
             /\ saved_mute_states' = EmptyMap
       /\ mode = "TILE" /\ active_tile # NoCell /\ active_tile' # NoCell =>
             /\ active_tile' = active_tile
             /\ saved_grid_info' = saved_grid_info
             /\ saved_pause_states' = saved_pause_states
             /\ saved_mute_states' = saved_mute_states
      ]_vars

\* a tile of a four-cell wall was left by the tile toggle
C25_Witness ==
    /\ tile_pre.state = "exited"
    /\ tile_pre.via = "toggle_tile"
    /\ Cardinality(monitor_items) = 4
    /\ active_tile = NoCell

\* the frame of the active tile covers the wall and is the only one shown
OnlyActiveShown ==
    /\ active_tile \in DOMAIN cell_frames
    /\ cell_frames[active_tile].shown
    /\ cell_frames[active_tile].row = 0
    /\ cell_frames[active_tile].column = 0
    /\ cell_frames[active_tile].rowspan = current_rows
    /\ cell_frames[active_tile].columnspan = current_cols
    /\ \A rc \in DOMAIN cell_frames \ {active_tile} : ~cell_frames[rc].shown

\* C26: while mode = Tile with an active tile, that tile's frame is shown at
\* row 0, column 0 with rowspan = rows and columnspan = cols and every other
\* frame is hidden; after Tile has been left, by a handler that returned,
\* every frame is shown.
C26_OneSurfaceInTile ==
    /\ mode = "TILE" /\ active_tile # NoCell => OnlyActiveShown
    /\ tile_pre.state = "exited" /\ ~raised =>
          \A rc \in DOMAIN cell_frames : cell_frames[rc].shown

\* where a frame is and whether it is shown
Placement(frame) == <<frame.row, frame.column, frame.rowspan, frame.columnspan, frame.shown>>

\* C27: an exit from Tile in which nothing misbehaves returns without an
\* exception and leaves every frame as its snapshot of the entry says, and a
\* frame without a snapshot, the active tile's included, at its own row and
\* column with span 1.
C27_ExitRestoresLayout ==
    [][tile_pre'.state = "exited" /\ env_used' = env_used =>
          /\ ~raised'
          /\ \A rc \in DOMAIN cell_frames' :
                IF HasSavedInfo(Cur, rc)
                THEN cell_frames'[rc] =
                         _restore_frame_grid_info(cell_frames[rc], saved_grid_info[rc])
                ELSE Placement(cell_frames'[rc]) = Placement(DefaultLayout(rc))
      ]_vars

\* <F11> with nothing misbehaving, from Normal: the toggle on
ToggledOn == mode = "NORMAL" /\ QuietF11

\* <F11> with nothing misbehaving, in a Global that was not forced by Tile:
\* the toggle off
ToggledOff == mode = "GLOBAL" /\ ~tile_forced_global /\ QuietF11

\* C28: from Normal the toggle on snapshots the split position and goes
\* Global; the toggle off returns to Normal with the side panel shown, the
\* window not full-window and the split position at the snapshot, which is
\* set after the pane has been added again (adding it resets the position).
C28_GlobalRoundTrip ==
    [][/\ ToggledOn =>
             /\ mode' = "GLOBAL"
             /\ saved_sash_pos' = sash_pos
             /\ ~side_shown'
             /\ window_fullscreen'
       /\ ToggledOff =>
             /\ mode' = "NORMAL"
             /\ side_visible'
             /\ side_shown'
             /\ ~window_fullscreen'
             /\ sash_pos' = saved_sash_pos
      ]_vars

\* <Escape>, or <F11> outside Normal: _exit_fullscreen behind its wrapper
ExitCalled == mode # "NORMAL" /\ (Escape \/ F11)

\* the same call with nothing misbehaving, in Tile
ExitCalledInTile == mode = "TILE" /\ (QuietEscape \/ QuietF11)

\* the frame and the player of a non-active cell are as the snapshots say
RestoredFromSnapshot(rc) ==
    /\ HasSavedInfo(Cur, rc) =>
          cell_frames'[rc] = _restore_frame_grid_info(cell_frames[rc], saved_grid_info[rc])
    /\ rc \in controllers /\ players[rc].alive =>
          /\ rc \in DOMAIN saved_pause_states =>
                players'[rc].pause = saved_pause_states[rc]
          /\ rc \in DOMAIN saved_mute_states =>
                players'[rc].mute = saved_mute_states[rc]

\* C29: one call of _exit_fullscreen in Tile or Global, forced or not, ends
\* in mode Normal with tile_forced_global false, no active tile and the
\* saved maps empty; called in Tile it has restored the layout and the
\* pause and mute flags of the non-active cells from the snapshots, which
\* therefore were still there when the restores ran.
C29_ExitInOneCall ==
    [][/\ ExitCalled =>
             /\ mode' = "NORMAL"
             /\ ~tile_forced_global'
             /\ active_tile' = NoCell
             /\ DOMAIN saved_grid_info' = {}
             /\ DOMAIN saved_pause_states' = {}
             /\ DOMAIN saved_mute_states' = {}
       /\ ExitCalledInTile =>
             \A rc \in DOMAIN cell_frames \ {active_tile} : RestoredFromSnapshot(rc)
      ]_vars

\* a Tile that had forced Global was left by Escape or F11 in one call, and a
\* cell that was paused at entry but not muted is so again
C29_Witness ==
    /\ tile_pre.state = "exited"
    /\ tile_pre.from = "NORMAL"
    /\ tile_pre.via \in {"escape", "f11"}
    /\ tile_pre.ipc_ok
    /\ ~raised
    /\ recovered = "no"
    /\ mode = "NORMAL"
    /\ ~tile_forced_global
    /\ \E rc \in controllers \ {tile_pre.cell} :
          /\ tile_pre.flags[rc] = [pause |-> TRUE, mute |-> FALSE]
          /\ players[rc].pause
          /\ ~players[rc].mute

\* _emergency_reset ran in the step, from an except clause or from the Reset
\* button, and every IPC call of the step was answered
RecoveryRan ==
    \/ recovered' = "except"
    \/ recovered' = "button" /\ env_used' = env_used

\* C30: after a recovery every registered cell whose player is there to take
\* the commands is unmuted and unpaused, whatever its flags and whatever
\* the snapshots were before.
C30_RecoveryResetsFlags ==
    [][RecoveryRan =>
          \A rc \in controllers' :
              players'[rc].alive => ~players'[rc].pause /\ ~players'[rc].mute
      ]_vars

\* a recovery out of Tile: the former active tile had been paused, another
\* cell had entered paused and muted (so its snapshot held true twice); both
\* play aloud now
C30_Witness ==
    /\ recovered = "except"
    /\ tile_pre.state = "exited"
    /\ tile_pre.ipc_ok
    /\ tile_pre.cell \in controllers
    /\ tile_pre.flags[tile_pre.cell].pause
    /\ players[tile_pre.cell] = FreshPlayer
    /\ \E rc \in controllers \ {tile_pre.cell} :
          /\ tile_pre.flags[rc] = [pause |-> TRUE, mute |-> TRUE]
          /\ players[rc] = FreshPlayer

\* a handler that enters or leaves Tile, with every IPC call to the cells
\* of F failing and nothing else misbehaving
TransitionFailing(F) ==
    \/ TileToggleIn({[Quiet EXCEPT !.fail = F]})
    \/ mode = "TILE" /\ \/ ExitTileButtonIn({[Quiet EXCEPT !.fail = F]})
                        \/ EscapeIn({[Quiet EXCEPT !.fail = F]})
                        \/ F11In({[Quiet EXCEPT !.fail = F]})

\* the entry went through and the cells that could be reached are isolated
EntryCompleted(F) ==
    \/ UNCHANGED <<fsvars, cell_frames, players>>
    \/ /\ mode' = "TILE"
       /\ active_tile' \in DOMAIN cell_frames
       /\ \A rc \in controllers \ (F \cup {active_tile'}) :
             players[rc].alive => players'[rc].pause /\ players'[rc].mute

\* the exit went through and the cells that could be reached have their
\* snapshot values (the mode field after the exit of a Tile that was
\* entered in Global is the matter of C3)
ExitCompleted(F) ==
    /\ mode' # "TILE" \/ ~tile_forced_global
    /\ active_tile' = NoCell
    /\ \A rc \in controllers \ (F \cup {active_tile}) :
          players[rc].alive =>
              /\ rc \in DOMAIN saved_pause_states =>
                    players'[rc].pause = saved_pause_states[rc]
              /\ rc \in DOMAIN saved_mute_states =>
                    players'[rc].mute = saved_mute_states[rc]

\* a flag the exit wrote has the value it had before the entry
WritesOnlyEntryValues ==
    \A rc \in controllers \ {tile_pre.cell} :
        /\ players'[rc].pause # players[rc].pause =>
              players'[rc].pause = tile_pre.flags[rc].pause
        /\ players'[rc].mute # players[rc].mute =>
              players'[rc].mute = tile_pre.flags[rc].mute

\* C31: a Tile entry or exit during which the IPC calls to some cells fail
\* returns without an exception and without recovery, completes the mode
\* change and treats the other cells as usual; and an exit from Tile writes
\* to no cell a pause or mute value other than the one the cell had before
\* the entry, the cells whose calls had failed included.
C31_TransportFailureNoOp ==
    [][/\ \A F \in SmallSets(controllers) \ {{}} :
             TransitionFailing(F) =>
                 /\ ~raised'
                 /\ recovered' = "no"
                 /\ IF mode = "TILE" THEN ExitCompleted(F) ELSE EntryCompleted(F)
       /\ (tile_pre'.state = "exited" /\ ~raised' /\ recovered' = "no") =>
             WritesOnlyEntryValues
      ]_vars

NotPoll(cmd) == cmd[1] # "get path"

IsPrefix(a, b) == Len(a) <= Len(b) /\ SubSeq(b, 1, Len(a)) = a

\* the commands of a whole call, the polls left out
SwapOrder(c) ==
    << Cmd("get time-pos", 0), Cmd("get pause", 0),
       Cmd("loadfile insert-at", c.idx + 1), Cmd("playlist-play-index", c.idx + 1),
       Cmd(PauseCmd(TRUE), 0), Cmd("set time-pos", c.pos_f), Cmd(PauseCmd(c.paused), 0),
       Cmd("playlist-remove", c.idx) >>

\* what has been issued is a beginning of that order, with the polls in one
\* run right behind playlist-play-index
IssuedInOrder ==
    /\ IsPrefix(SelectSeq(swap_call.cmds, NotPoll), SwapOrder(swap_call))
    /\ \A k \in 1 .. Len(swap_call.cmds) :
          ~NotPoll(swap_call.cmds[k]) =>
              /\ k > 4
              /\ \A j \in 5 .. k : ~NotPoll(swap_call.cmds[j])

SeekIssued == \E k \in 1 .. Len(swap_call.cmds) : swap_call.cmds[k][1] = "set time-pos"

\* C32 as stated: the commands of the hot swap are issued in the order
\* capture, load behind the current entry, switch, poll, pause, seek,
\* restore pause, remove the old entry; and the seek is issued only after
\* a poll has seen the new path as the player's current one.
C32_SeekAfterReport ==
    /\ IssuedInOrder
    /\ SeekIssued => swap_call.seen

\* C32 amended: the same order; the seek is issued only after a poll has
\* seen the new path as the player's current one, or after the deadline of
\* the polling loop has passed.
C32_SeekAfterReportOrDeadline ==
    /\ IssuedInOrder
    /\ SeekIssued => swap_call.seen \/ swap_call.polls = MaxPolls

\* a whole call on a paused player: a poll came too early, a later one saw
\* the new path, and all eight commands went out
C32_Witness ==
    /\ swap_call.pc = "done"
    /\ swap_call.paused
    /\ swap_call.seen
    /\ swap_call.polls >= 1
    /\ SelectSeq(swap_call.cmds, NotPoll) = SwapOrder(swap_call)
    /\ PathOf(swap_call.m) = SwapNewPath
    /\ swap_call.m.time_pos = swap_call.pos_f

\* C33: a pass of the monitor thread changes nothing of the coordinator's
\* state: not the process list it reads, not the registry, not the
\* fullscreen state, not the Start and Stop controls; what it causes is
\* queued for the event loop, and the controls change only in steps of the
\* control thread.
C33_ThreadOnlyQueues ==
    [][/\ MonitorPolls =>
             /\ after_queue' = after_queue + 1
             /\ UNCHANGED <<fsvars, cell_frames, controllers, monitor_items, players,
                            processes, playlists, start_enabled, stop_enabled>>
       /\ (start_enabled' # start_enabled \/ stop_enabled' # stop_enabled) =>
             RunCallbacks \/ LifeStart \/ LifeStop
      ]_vars

\* the thread has found every process gone and has queued its callbacks;
\* the controls are still those of a running wall
C33_Witness ==
    /\ AllExited
    /\ ~monitor_on
    /\ after_queue = 1
    /\ ~start_enabled
    /\ stop_enabled

\* C34: between handlers, mode = Tile implies that active_tile names a
\* registered cell, and mode Normal or Global implies that there is no
\* active tile.
C34_ActiveTileIffTile ==
    /\ mode = "TILE" => active_tile \in controllers
    /\ mode \in {"NORMAL", "GLOBAL"} => active_tile = NoCell

\* C35: between handlers the side_visible flag says whether the side pane
\* is managed by the paned window, and in mode Normal the pane is shown and
\* the window is not full-window; after a _stop_all that went through, in
\* whatever mode it was called, the pane is shown.
C35_SidePanelAgrees ==
    /\ side_visible = side_shown
    /\ mode = "NORMAL" => side_shown /\ ~window_fullscreen
    /\ (stop_log.calls > 0 /\ stop_log.exc # "raised" /\ stop_log.was # "NORMAL") =>
          side_shown

\* C36: whenever no hot swap is under way, each cell's in-memory playlist
\* is, entry for entry, the playlist of that cell's player, so that an
\* index looked up in the one names the same entry in the other.
C36_ListsInStep ==
    NoSwapPending =>
        \A c \in DOMAIN playlists \cap DOMAIN media : media[c].playlist = playlists[c]

\* C37: between handlers there are as many tracked process handles as
\* registry entries, and after a start in which every launch worked the
\* tracked handles are the rows * cols processes of that wall.
C37_HandlesMatchRegistry ==
    /\ Len(processes) = Cardinality(controllers)
    /\ (start_log # NoStart /\ ~start_log.error /\ processes # <<>>) =>
          Len(processes) = start_log.rows * start_log.cols

\* C38: between handlers, while a tracked player process is alive the Stop
\* control is enabled and the Start control disabled, however the monitor
\* thread and its queued callbacks interleave with starts and stops.
C38_ControlsFollowProcesses ==
    alive(processes) > 0 => stop_enabled /\ ~start_enabled

\* C39: in every player the script's state is "inf", which is when the
\* title suffix and the OSD label are shown, exactly when the player's
\* loop-file property is inf.
C39_MarkerIffLooping ==
    \A c \in DOMAIN lua : (lua[c].state = "inf") <=> (lua[c].loop_file = "inf")

====
